---- MODULE Spec2Model ----
(***************************************************************************)
(* Consolidation and range reconciliation of securities-holding snapshots  *)
(* (aarnav1729/pesa).                                                      *)
(*                                                                         *)
(* Browser side: parsed files -> consolidateData -> combineHoldings ->     *)
(* fileGroupsAsc -> summaryPeriodGroups -> rawSummaryRows, driven by the   *)
(* summary range selectors.  Server side: POST /api/pesa/import persists   *)
(* the holdings as rows; GET /api/pesa/rn streams the rows through the     *)
(* per-key aggregation and writes the Summary, ByDate, Controls and        *)
(* SummaryDynamic sheets.                                                  *)
(*                                                                         *)
(* Text is modelled as sequences: a name, depository id or client id is a  *)
(* sequence of one-character strings; a date key is a sequence of tokens   *)
(* (date text, "@@", file index digits, "-", position digits).             *)
(***************************************************************************)
EXTENDS Integers, Sequences, FiniteSets, TLC

VARIABLES
  parsedFiles,      \* handleFilesSelected: the batch parseXLSXFile returned
  earlierFiles,     \* history: files consolidated before "Upload More Files"
  holdings,         \* Index state: HoldingRecord[] from consolidateData
  dates,            \* Index state: date keys from consolidateData
  summaryFromBase,  \* MasterTable state: "From" selector ("" = unset)
  summaryToBase,    \* MasterTable state: "To" selector ("" = unset)
  dbRows,           \* server: rows of dbo.pesa_data
  rnPc,             \* /api/pesa/rn: "idle", "streaming", "done"
  rnRows,           \* /api/pesa/rn: the ordered result set of the query
  rnPos,            \* /api/pesa/rn: number of rows the stream has delivered
  aggMap,           \* /api/pesa/rn: per-key aggregation, in insertion order
  byDate,           \* /api/pesa/rn: rows written to the ByDate sheet
  summarySheet,     \* /api/pesa/rn: rows written to the Summary sheet
  controlsFrom,     \* workbook: Controls!B2 (a date of the Lists sheet)
  controlsTo,       \* workbook: Controls!B3
  dateOrder,        \* MasterTable: "asc" or "desc", the Reverse Dates switch
  beforeToggle,     \* history: range, period groups and summary rows on screen
                    \* when Reverse Dates was last pressed
  imports,          \* POST /api/pesa/import: per request, how far it got and
                    \* the rows built from its payload; history: the rows of
                    \* the table and the requests finished when it arrived
  importLog,        \* history: the import requests in the order they finished
  otpStore,         \* dbo.PesaLoginOTP: the code stored per email, "" for none
  verifies,         \* POST /api/verify-otp: per request, how far it got; history:
                    \* the codes mailed and the requests given a cookie so far
  mailed,           \* history: the codes send-otp mailed, in order
  served,           \* history: the requests answered, with handler and status
  arg,              \* a function under test: the argument of the call
  returned          \* a function under test: the values returned so far

vars == <<parsedFiles, earlierFiles, holdings, dates, summaryFromBase, summaryToBase,
          dbRows, rnPc, rnRows, rnPos, aggMap, byDate, summarySheet,
          controlsFrom, controlsTo, dateOrder, beforeToggle, imports, importLog,
          otpStore, verifies, mailed, served, arg, returned>>

fnVars == <<arg, returned>>
viewVars == <<dateOrder, beforeToggle>>
importVars == <<imports, importLog>>
otpVars == <<otpStore, verifies, mailed>>
srvVars == <<importVars, otpVars, served>>
browserVars == <<parsedFiles, earlierFiles, holdings, dates, summaryFromBase,
                 summaryToBase>>
rnVars == <<rnPc, rnRows, rnPos, aggMap, byDate, summarySheet, controlsFrom,
           controlsTo>>

-----------------------------------------------------------------------------
(* Bounds *)

MaxDate == 3      \* calendar days 1..MaxDate of December 2025
MaxFiles == 2     \* files in one uploaded batch
MaxRows == 3      \* rows of one merge batch
MaxNameLen == 4   \* characters of a name handed to normalizeName
MaxCellLen == 3   \* characters of a text in a number cell
MaxRequests == 2  \* requests of one kind in flight at the server

-----------------------------------------------------------------------------
(* Generic helpers *)

None == <<>>
Some(n) == <<n>>

EmptyMap == [k \in {} |-> k]

Put(f, k, v) == [x \in (DOMAIN f) \cup {k} |-> IF x = k THEN v ELSE f[x]]

Range(s) == {s[i] : i \in 1..Len(s)}

RECURSIVE SeqSum(_)
SeqSum(s) == IF s = <<>> THEN 0 ELSE Head(s) + SeqSum(Tail(s))

\* Lexicographic order on integer tuples: a before or equal b.
RECURSIVE LexLeq(_, _)
LexLeq(a, b) ==
  IF a = <<>> THEN TRUE
  ELSE IF b = <<>> THEN FALSE
  ELSE IF Head(a) # Head(b) THEN Head(a) < Head(b)
  ELSE LexLeq(Tail(a), Tail(b))

\* Array.prototype.sort with a comparator that subtracts sort keys: a stable
\* sort.  keys[i] is the tuple of numbers the comparator reads from s[i].
RECURSIVE InsertSorted(_, _, _)
InsertSorted(perm, i, keys) ==
  IF perm = <<>> THEN <<i>>
  ELSE IF LexLeq(keys[perm[Len(perm)]], keys[i]) THEN Append(perm, i)
  ELSE Append(InsertSorted(SubSeq(perm, 1, Len(perm) - 1), i, keys),
              perm[Len(perm)])

RECURSIVE SortPerm(_, _)
SortPerm(n, keys) ==
  IF n = 0 THEN <<>> ELSE InsertSorted(SortPerm(n - 1, keys), n, keys)

SortBy(s, keys) ==
  LET perm == SortPerm(Len(s), keys) IN [i \in 1..Len(s) |-> s[perm[i]]]

\* Keeps the first occurrence of each element (Array.from(new Set(...))).
RECURSIVE Uniq(_)
Uniq(s) ==
  IF s = <<>> THEN <<>>
  ELSE LET r == Uniq(SubSeq(s, 1, Len(s) - 1))
       IN IF s[Len(s)] \in Range(r) THEN r ELSE Append(r, s[Len(s)])

\* Leading and trailing characters of a text removed; String.trim.
RECURSIVE StripLeading(_, _)
StripLeading(s, chars) ==
  IF s # <<>> /\ Head(s) \in chars THEN StripLeading(Tail(s), chars) ELSE s

RECURSIVE StripTrailing(_, _)
StripTrailing(s, chars) ==
  IF s # <<>> /\ s[Len(s)] \in chars
  THEN StripTrailing(SubSeq(s, 1, Len(s) - 1), chars) ELSE s

Trim(s) == StripTrailing(StripLeading(s, {" "}), {" "})

-----------------------------------------------------------------------------
(* Dates and date keys *)

\* The header text "DD-MM-YYYY" of day d of December 2025.
DateStr(d) == "0" \o ToString(d) \o "-12-2025"

DateStrs == {DateStr(d) : d \in 1..MaxDate}

\* The day each date text of the model spells.
DayOfDateStr == [s \in DateStrs |-> CHOOSE d \in 1..MaxDate : DateStr(d) = s]

\* parseDate(...).getTime(): the time of the date the text holds, the epoch
\* (new Date(0)) when the text holds none.  Times are counted in days.
parseDate(dateStr) ==
  IF dateStr \in DOMAIN DayOfDateStr THEN DayOfDateStr[dateStr] ELSE 0

\* The number each digit text spells.
DigitOfText == [t \in {ToString(n) : n \in 0..9} |->
                  CHOOSE n \in 0..9 : ToString(n) = t]

\* Number(text) of a token: the integer it spells, None for NaN.
\* Number("") is 0.
NumberOf(tok) ==
  IF tok = "" THEN Some(0)
  ELSE IF tok \in DOMAIN DigitOfText THEN Some(DigitOfText[tok])
  ELSE None

\* Variant whose keys do not carry the position.
DateKeyWithoutPos(date, i, pos) == <<date, "@@", ToString(i)>>

\* `${date}@@${i}-${pos}`
DateKey(date, i, pos) == <<date, "@@", ToString(i), "-", ToString(pos)>>

\* Index of the first token tok in s, 0 when there is none.
IndexOfTok(s, tok) ==
  IF \E i \in 1..Len(s) : s[i] = tok
  THEN CHOOSE i \in 1..Len(s) : s[i] = tok /\ \A j \in 1..(i - 1) : s[j] # tok
  ELSE 0

\* String.split(sep): the pieces between the separator tokens.
RECURSIVE Split(_, _)
Split(s, sep) ==
  LET i == IndexOfTok(s, sep)
  IN IF i = 0 THEN <<s>>
     ELSE <<SubSeq(s, 1, i - 1)>> \o Split(SubSeq(s, i + 1, Len(s)), sep)

\* The text of a token sequence.
RECURSIVE Join(_)
Join(s) == IF s = <<>> THEN "" ELSE Head(s) \o Join(Tail(s))

getBaseDate(dateKey) ==
  LET base == Join(Split(dateKey, "@@")[1])
  IN IF base # "" THEN base ELSE Join(dateKey)

getFileIndexFromDateKey(dateKey) ==
  LET parts == Split(dateKey, "@@")
  IN IF Len(parts) < 2 THEN None
     ELSE NumberOf(Join(Split(parts[2], "-")[1]))

getSnapshotPosFromDateKey(dateKey) ==
  LET parts == Split(dateKey, "@@")
  IN IF Len(parts) < 2 THEN None
     ELSE LET pieces == Split(parts[2], "-")
          IN IF Len(pieces) < 2 THEN None   \* Number(undefined) is NaN
             ELSE NumberOf(Join(pieces[2]))

keyTime(dateKey) == parseDate(getBaseDate(dateKey))

-----------------------------------------------------------------------------
(* Inputs: the files parseXLSXFile returns *)

CharA == <<"A">>
CharDotA == <<".", "A">>
CharB == <<"B">>

Row(name, category, first, second, b, s) ==
  [dpid |-> <<"D">>, clientId |-> <<"C">>, name |-> name,
   category |-> category, firstValue |-> first, secondValue |-> second,
   bought |-> b, sold |-> s]

DatePairs == {p \in (1..MaxDate) \X (1..MaxDate) : p[1] <= p[2]}

\* Rows of the k-th file of a reconciliation batch: holders A and B, then
\* holder A alone, then holder B alone.  B's second value is not its first
\* value plus the net delta.
ReconRows(k) ==
  IF k % 3 = 1
  THEN <<Row(CharA, "EQ", 500, 600, 150, 50), Row(CharB, "EQ", 900, 1000, 200, 50)>>
  ELSE IF k % 3 = 2
  THEN <<Row(CharA, "EQ", 600, 700, 100, 0)>>
  ELSE <<Row(CharB, "EQ", 1000, 1100, 100, 0)>>

ReconFile(p, k) ==
  [firstDate |-> DateStr(p[1]), secondDate |-> DateStr(p[2]), rows |-> ReconRows(k)]

\* The batches: up to MaxFiles files in upload order, each with any pair of
\* dates.
Batches ==
  {[k \in 1..Len(ps) |-> ReconFile(ps[k], k)] :
     ps \in UNION {[1..n -> DatePairs] : n \in 1..MaxFiles}}

\* The batches of one file with holder A alone.
SoloBatches == {<<ReconFile(p, 2)>> : p \in DatePairs}

\* The batches in which one file is selected twice.
DoubleBatches ==
  {<<ReconFile(p, k), ReconFile(p, k)>> : p \in DatePairs, k \in 1..3}

\* Files of the merge batches: up to MaxRows rows for one holder whose name is
\* written "A" or ".A", with an empty or a non-empty category.
MergeNames == {CharA, CharDotA}
MergeCategories == {"", "X", "Y"}

MergeRow(j, name, category) == Row(name, category, 100 * j, 110 * j, 20 * j, 10 * j)

MergeRowSeqs ==
  UNION {[1..n -> MergeNames \X MergeCategories] : n \in 1..MaxRows}

\* The rows of a merge batch are dealt to consecutive files: tags[j] is the
\* file of row j.
MergeTags(n) ==
  {t \in [1..n -> 1..MaxFiles] :
     t[1] = 1 /\ \A j \in 2..n : t[j] \in {t[j - 1], t[j - 1] + 1}}

\* Odd files hold the days 1 and 2, even files the day 1 twice, so that the
\* second file of a batch is sorted before the first.
MergeFile(rs, tags, k) ==
  LET js == SelectSeq([j \in 1..Len(rs) |-> j], LAMBDA j : tags[j] = k)
  IN [firstDate |-> DateStr(1),
      secondDate |-> IF k % 2 = 1 THEN DateStr(2) ELSE DateStr(1),
      rows |-> [m \in 1..Len(js) |-> MergeRow(js[m], rs[js[m]][1], rs[js[m]][2])]]

MergeBatches ==
  {[k \in 1..tags[Len(rs)] |-> MergeFile(rs, tags, k)] :
     <<rs, tags>> \in {p \in MergeRowSeqs \X UNION {MergeTags(n) : n \in 1..MaxRows} :
                        Len(p[1]) = Len(p[2])}}

\* Keys handed to the decoders: a date text alone, or followed by "@@" and a
\* file-index part, or by those and "-" and a position part.  A part is
\* empty, a number, or a text that is no number.
CodecParts == {<<>>, <<"x">>} \cup {<<ToString(n)>> : n \in 0..MaxFiles}

CodecKeys ==
  {<<d>> : d \in DateStrs}
    \cup {<<d, "@@">> \o ip : d \in DateStrs, ip \in CodecParts}
    \cup {<<d, "@@">> \o ip \o <<"-">> \o pp :
            d \in DateStrs, ip \in CodecParts, pp \in CodecParts}

\* Payloads of POST /api/pesa/import that hold keys of every shape: the bare
\* date text of the older column format, a key whose meta has no position,
\* and the keys consolidateData builds.  One holder, MaxFiles keys at most.
PayloadKeys ==
  {<<d>> : d \in DateStrs}
    \cup {<<d, "@@", "0">> : d \in DateStrs}
    \cup {DateKey(d, 0, pos) : d \in DateStrs, pos \in {1, 2}}

PayloadValue(dk) ==
  IF getSnapshotPosFromDateKey(dk) = Some(1)
  THEN [value |-> 1000 + 100 * keyTime(dk), bought |-> 0, sold |-> 0]
  ELSE [value |-> 1000 + 100 * keyTime(dk), bought |-> 20 * keyTime(dk),
        sold |-> 5 * keyTime(dk)]

PayloadHolding(keys) ==
  [id |-> <<"D", "-", "C", "-", "A">>, dpid |-> <<"D">>, clientId |-> <<"C">>,
   name |-> CharA, category |-> "EQ",
   dateValues |-> [dk \in keys |-> PayloadValue(dk)]]

Payloads ==
  {<<PayloadHolding(keys)>> :
     keys \in {ks \in SUBSET PayloadKeys : Cardinality(ks) \in 1..MaxFiles}}

\* Files whose DPID and CLIENT-ID cells hold the characters the keys are
\* joined with: one file of two rows.
DpidTexts == {<<"D">>, <<"D", "|">>, <<"D", "-">>}
ClientIdTexts == {<<"C">>, <<"|", "C">>, <<"-", "C">>}

IdentityRow(j, dpid, clientId, name) ==
  [Row(name, "EQ", 100 * j, 110 * j, 20 * j, 10 * j)
     EXCEPT !.dpid = dpid, !.clientId = clientId]

IdentityBatches ==
  {<<[firstDate |-> DateStr(1), secondDate |-> DateStr(2),
      rows |-> <<IdentityRow(1, t1[1], t1[2], t1[3]),
                 IdentityRow(2, t2[1], t2[2], t2[3])>>]>> :
     t1 \in DpidTexts \X ClientIdTexts \X {CharA, CharB},
     t2 \in DpidTexts \X ClientIdTexts \X {CharA, CharB}}

\* Names handed to normalizeName: texts of dots, blanks and letters.
NameChars == {".", " ", "A"}

Names == UNION {[1..n -> NameChars] : n \in 0..MaxNameLen}

-----------------------------------------------------------------------------
(* xlsxParser.ts: toNumber, parseXLSXFile *)

\* A cell of the sheet: a number, a text (a sequence of characters), or
\* nothing.  Share counts are whole numbers.
NumCell(n) == [kind |-> "number", num |-> n, text |-> <<>>]
TextCell(t) == [kind |-> "text", num |-> 0, text |-> t]
NoCell == [kind |-> "undefined", num |-> 0, text |-> <<>>]

isDigits(s) == s # <<>> /\ \A i \in 1..Len(s) : s[i] \in DOMAIN DigitOfText

\* The number a run of digits spells.
RECURSIVE DigitsValue(_)
DigitsValue(s) ==
  IF s = <<>> THEN 0
  ELSE 10 * DigitsValue(SubSeq(s, 1, Len(s) - 1)) + DigitOfText[s[Len(s)]]

\* Number(s) of a text without whitespace: None for NaN.
NumberOfText(s) ==
  IF s = <<>> THEN Some(0)
  ELSE IF isDigits(s) THEN Some(DigitsValue(s))
  ELSE IF Head(s) = "+" /\ isDigits(Tail(s)) THEN Some(DigitsValue(Tail(s)))
  ELSE IF Head(s) = "-" /\ isDigits(Tail(s)) THEN Some(0 - DigitsValue(Tail(s)))
  ELSE None

RemoveAll(s, chars) == SelectSeq(s, LAMBDA c : c \notin chars)

\* Variant that reads the leading digits of the text, as parseInt does.
toNumberLeadingDigits(v) ==
  IF v.kind = "undefined" THEN 0
  ELSE IF v.kind = "number" THEN v.num
  ELSE LET s == Trim(v.text)
           n == IF \E i \in 1..Len(s) : s[i] \notin DOMAIN DigitOfText
                THEN (CHOOSE i \in 1..Len(s) :
                        /\ s[i] \notin DOMAIN DigitOfText
                        /\ \A j \in 1..(i - 1) : s[j] \in DOMAIN DigitOfText) - 1
                ELSE Len(s)
       IN DigitsValue(SubSeq(s, 1, n))

toNumber(v) ==
  IF v.kind = "undefined" THEN 0
  ELSE IF v.kind = "number" THEN v.num
  ELSE LET s0 == Trim(v.text)
       IN IF s0 = <<>> THEN 0
          ELSE LET neg == Head(s0) = "(" /\ s0[Len(s0)] = ")" /\ Len(s0) >= 2
                   s1 == IF neg THEN Trim(SubSeq(s0, 2, Len(s0) - 1)) ELSE s0
                   s2 == RemoveAll(s1, {",", " "})
                   s3 == IF s2 # <<>> /\ Head(s2) = "+" THEN Tail(s2) ELSE s2
                   n == NumberOfText(s3)
               IN IF n = None THEN 0 ELSE IF neg THEN 0 - n[1] ELSE n[1]

\* /^as on/i.test(String(h).trim()): a header is a sequence of words, blanks
\* and date texts.
AsOnWords == {"AS ON", "as on", "As On"}

isAsOnHeader(h) ==
  LET t == StripLeading(h, {" "}) IN t # <<>> /\ Head(t) \in AsOnWords

\* The first DD-MM-YYYY text of the header, None when it has none.
extractDateFromHeader(h) ==
  IF \E i \in 1..Len(h) : h[i] \in DateStrs
  THEN Some(h[CHOOSE i \in 1..Len(h) :
                /\ h[i] \in DateStrs
                /\ \A j \in 1..(i - 1) : h[j] \notin DateStrs])
  ELSE None

\* The AS ON columns that carry a date, sorted by date.
asOnWithDatesOf(headers) ==
  LET dated == SelectSeq(headers, LAMBDA h : isAsOnHeader(h)
                                              /\ extractDateFromHeader(h) # None)
  IN SortBy(dated, [i \in 1..Len(dated) |->
                      <<parseDate(extractDateFromHeader(dated[i])[1])>>])

\* The rows of a sheet read through two of its columns; rows without a name
\* are dropped.
rowsOfSheet(sheetRows, firstAsOnCol, secondAsOnCol) ==
  LET cell(row, col) == IF col \in DOMAIN row.cells THEN row.cells[col] ELSE NoCell
      mapped == [r \in 1..Len(sheetRows) |->
                   [dpid |-> sheetRows[r].DPID, clientId |-> sheetRows[r].CLIENTID,
                    name |-> sheetRows[r].NAME, category |-> sheetRows[r].CATEGORY,
                    firstValue |-> toNumber(cell(sheetRows[r], firstAsOnCol)),
                    secondValue |-> toNumber(cell(sheetRows[r], secondAsOnCol)),
                    bought |-> toNumber(sheetRows[r].BOUGHT),
                    sold |-> toNumber(sheetRows[r].SOLD)]]
  IN SelectSeq(mapped, LAMBDA row : row.name # <<>>)

\* Variant that makes do with a single dated AS ON column.
parseXLSXFileLenient(file) ==
  IF file.rows = <<>> THEN None
  ELSE LET asOnWithDates == asOnWithDatesOf(file.headers)
           n == Len(asOnWithDates)
       IN IF n < 1 THEN None
          ELSE Some([firstDate |-> extractDateFromHeader(asOnWithDates[1])[1],
                     secondDate |-> extractDateFromHeader(asOnWithDates[IF n < 2 THEN 1 ELSE 2])[1],
                     rows |-> rowsOfSheet(file.rows, asOnWithDates[1],
                                          asOnWithDates[IF n < 2 THEN 1 ELSE 2])])

\* parseXLSXFile: None for resolve(null).  file.headers are the keys of the
\* first row of the sheet, file.rows the rows.
parseXLSXFile(file) ==
  IF file.rows = <<>> THEN None
  ELSE LET asOnWithDates == asOnWithDatesOf(file.headers)
       IN IF Len(asOnWithDates) < 2 THEN None
          ELSE Some([firstDate |-> extractDateFromHeader(asOnWithDates[1])[1],
                     secondDate |-> extractDateFromHeader(asOnWithDates[2])[1],
                     rows |-> rowsOfSheet(file.rows, asOnWithDates[1],
                                          asOnWithDates[2])])

\* Index.handleFilesSelected, the loop over the files: the files that parse.
parsedFilesOf(files) ==
  LET parsed == [i \in 1..Len(files) |-> parseXLSXFile(files[i])]
      kept == SelectSeq(parsed, LAMBDA x : x # None)
  IN [i \in 1..Len(kept) |-> kept[i][1]]

\* Sheets: the k-th sheet of a batch has the holders of ReconRows(k), values
\* that tell the sheets apart, and any of four columns besides the fixed
\* ones: "AS ON <day k>", " as on <day k+1>", "AS ON" and "HOLDING <day k+1>".
SheetColumns(k) ==
  <<<<"AS ON", " ", DateStr(k)>>, <<" ", "as on", " ", DateStr(k + 1)>>,
    <<"AS ON">>, <<"HOLDING", " ", DateStr(k + 1)>>>>

SheetRow(k, row, columns) ==
  [DPID |-> row.dpid, CLIENTID |-> row.clientId, NAME |-> row.name,
   CATEGORY |-> row.category, BOUGHT |-> NumCell(row.bought),
   SOLD |-> NumCell(row.sold),
   cells |-> [h \in Range(columns) |->
                IF h = SheetColumns(k)[1] THEN NumCell(10000 * k + row.firstValue)
                ELSE IF h = SheetColumns(k)[2] THEN NumCell(10000 * k + row.secondValue)
                ELSE NumCell(7)]]

Sheet(k, present) ==
  LET columns == SelectSeq(SheetColumns(k), LAMBDA h : h \in present)
  IN [headers |-> columns,
      rows |-> [r \in 1..Len(ReconRows(k)) |-> SheetRow(k, ReconRows(k)[r], columns)]]

SheetBatches ==
  UNION {{[k \in 1..n |-> Sheet(k, {SheetColumns(k)[c] : c \in present[k]})] :
            present \in [1..n -> SUBSET (1..4)]} :
           n \in 1..MaxFiles}

\* Sheets with every column, one cell of the first row of the first sheet
\* holding a text: the two AS ON cells, BOUGHT or SOLD.
CellChars == {"1", ",", "(", ")", "+", "x", " "}

CellTexts == UNION {[1..n -> CellChars] : n \in 0..MaxCellLen}

withCell(sheet, c, cell) ==
  LET row == sheet.rows[1]
      changed == IF c = 3 THEN [row EXCEPT !.BOUGHT = cell]
                 ELSE IF c = 4 THEN [row EXCEPT !.SOLD = cell]
                 ELSE [row EXCEPT !.cells[sheet.headers[c]] = cell]
  IN [sheet EXCEPT !.rows[1] = changed]

CellBatches ==
  {[k \in 1..MaxFiles |->
      IF k = 1 THEN withCell(Sheet(1, Range(SheetColumns(1))), c, TextCell(t))
      ELSE Sheet(k, Range(SheetColumns(k)))] : c \in 1..4, t \in CellTexts}

-----------------------------------------------------------------------------
(* xlsxParser.ts: consolidateData *)

\* Index of the record with this id in an insertion-ordered Map, 0 if absent.
IndexOfId(map, id) ==
  IF \E i \in 1..Len(map) : map[i].id = id
  THEN CHOOSE i \in 1..Len(map) : map[i].id = id
  ELSE 0

\* Variant that drops the repeated files of the batch before sorting.
sortedDistinctFilesOf(files) ==
  LET distinct == Uniq(files)
  IN SortBy(distinct,
            [i \in 1..Len(distinct) |-> <<parseDate(distinct[i].secondDate)>>])

\* Sort files by their secondDate.
sortedFilesOf(files) ==
  SortBy(files, [i \in 1..Len(files) |-> <<parseDate(files[i].secondDate)>>])

\* Variant whose keys do not carry the index of the file.
fileKeysWithoutIndex(f, i) ==
  [firstKey |-> DateKey(f.firstDate, 0, 1),
   secondKey |-> DateKey(f.secondDate, 0, 2)]

\* The two keys of the file at (0-based) index i of the sorted batch.
fileKeys(f, i) ==
  [firstKey |-> DateKey(f.firstDate, i, 1),
   secondKey |-> DateKey(f.secondDate, i, 2)]

\* `${row.dpid}-${row.clientId}-${row.name}`
rowKeyOf(row) == row.dpid \o <<"-">> \o row.clientId \o <<"-">> \o row.name

\* Variant that books the row's bought and sold on both snapshots.
consolidateRowBothSnapshots(map, row, firstKey, secondKey) ==
  LET rowKey == rowKeyOf(row)
      idx == IndexOfId(map, rowKey)
      map1 == IF idx = 0
              THEN Append(map, [id |-> rowKey, dpid |-> row.dpid,
                                clientId |-> row.clientId, name |-> row.name,
                                category |-> row.category, dateValues |-> EmptyMap])
              ELSE map
      j == IF idx = 0 THEN Len(map1) ELSE idx
      holding == map1[j]
      dv1 == Put(holding.dateValues, firstKey,
                 [value |-> row.firstValue, bought |-> row.bought, sold |-> row.sold])
      dv2 == Put(dv1, secondKey,
                 [value |-> row.secondValue, bought |-> row.bought, sold |-> row.sold])
      category == IF row.category # "" THEN row.category ELSE holding.category
  IN [map1 EXCEPT ![j] = [holding EXCEPT !.dateValues = dv2, !.category = category]]

\* Body of the loop over the rows of one file.
consolidateRow(map, row, firstKey, secondKey) ==
  LET rowKey == rowKeyOf(row)
      idx == IndexOfId(map, rowKey)
      map1 == IF idx = 0
              THEN Append(map, [id |-> rowKey, dpid |-> row.dpid,
                                clientId |-> row.clientId, name |-> row.name,
                                category |-> row.category, dateValues |-> EmptyMap])
              ELSE map
      j == IF idx = 0 THEN Len(map1) ELSE idx
      holding == map1[j]
      dv1 == Put(holding.dateValues, firstKey,
                 [value |-> row.firstValue, bought |-> 0, sold |-> 0])
      dv2 == Put(dv1, secondKey,
                 [value |-> row.secondValue, bought |-> row.bought, sold |-> row.sold])
      category == IF row.category # "" THEN row.category ELSE holding.category
  IN [map1 EXCEPT ![j] = [holding EXCEPT !.dateValues = dv2, !.category = category]]

RECURSIVE consolidateRows(_, _, _, _)
consolidateRows(map, rows, firstKey, secondKey) ==
  IF rows = <<>> THEN map
  ELSE consolidateRows(consolidateRow(map, Head(rows), firstKey, secondKey),
                       Tail(rows), firstKey, secondKey)

RECURSIVE consolidateFiles(_, _, _)
consolidateFiles(map, sortedFiles, k) ==
  IF k > Len(sortedFiles) THEN map
  ELSE LET keys == fileKeys(sortedFiles[k], k - 1)
       IN consolidateFiles(
            consolidateRows(map, sortedFiles[k].rows, keys.firstKey, keys.secondKey),
            sortedFiles, k + 1)

\* The column instances, two per file, sorted by base date, file, position.
columnsOf(sortedFiles) ==
  LET n == Len(sortedFiles)
      col(c) == LET k == (c + 1) \div 2
                    pos == IF c % 2 = 1 THEN 1 ELSE 2
                    keys == fileKeys(sortedFiles[k], k - 1)
                IN [key |-> IF pos = 1 THEN keys.firstKey ELSE keys.secondKey,
                    baseDate |-> IF pos = 1 THEN sortedFiles[k].firstDate
                                 ELSE sortedFiles[k].secondDate,
                    fileIndex |-> k - 1, pos |-> pos]
      columns == [c \in 1..(2 * n) |-> col(c)]
  IN SortBy(columns,
            [c \in 1..(2 * n) |->
               <<parseDate(columns[c].baseDate), columns[c].fileIndex, columns[c].pos>>])

consolidateData(files) ==
  IF Len(files) = 0 THEN [holdings |-> <<>>, dates |-> <<>>]
  ELSE LET sortedFiles == sortedFilesOf(files)
           columns == columnsOf(sortedFiles)
       IN [holdings |-> consolidateFiles(<<>>, sortedFiles, 1),
           dates |-> [c \in 1..Len(columns) |-> columns[c].key]]

-----------------------------------------------------------------------------
(* MasterTable.tsx: normalizeName, combineHoldings *)

\* Variant that strips dots but not the whitespace between them.
normalizeNameDotsOnly(name) ==
  IF name = <<>> THEN <<>>
  ELSE Trim(StripTrailing(StripLeading(Trim(name), {"."}), {"."}))

normalizeName(name) ==
  IF name = <<>> THEN <<>>
  ELSE Trim(StripTrailing(StripLeading(Trim(name), {".", " "}), {".", " "}))

\* `${h.dpid}|${h.clientId}|${normalized}`
combinedKeyOf(dpid, clientId, normalized) ==
  dpid \o <<"|">> \o clientId \o <<"|">> \o normalized

\* Merge the date values of h into those of an existing record.
mergeDateValues(existing, incoming) ==
  [dk \in (DOMAIN existing) \cup (DOMAIN incoming) |->
     IF dk \in DOMAIN existing /\ dk \in DOMAIN incoming
     THEN [value |-> existing[dk].value + incoming[dk].value,
           bought |-> existing[dk].bought + incoming[dk].bought,
           sold |-> existing[dk].sold + incoming[dk].sold]
     ELSE IF dk \in DOMAIN existing THEN existing[dk] ELSE incoming[dk]]

\* Variant that keys the records by the name as written.
combineHoldingByRawName(map, h) ==
  LET key == combinedKeyOf(h.dpid, h.clientId, h.name)
      idx == IndexOfId(map, key)
  IN IF idx = 0
     THEN Append(map, [h EXCEPT !.id = key])
     ELSE [map EXCEPT ![idx] =
             [@ EXCEPT !.dateValues = mergeDateValues(@, h.dateValues)]]

\* Body of the loop of combineHoldings.
combineHolding(map, h) ==
  LET normalized == normalizeName(h.name)
      key == combinedKeyOf(h.dpid, h.clientId, normalized)
      idx == IndexOfId(map, key)
  IN IF idx = 0
     THEN Append(map, [h EXCEPT !.id = key, !.name = normalized])
     ELSE [map EXCEPT ![idx] =
             [@ EXCEPT !.dateValues = mergeDateValues(@, h.dateValues),
                       !.category = IF @ = "" /\ h.category # ""
                                    THEN h.category ELSE @]]

RECURSIVE combineFrom(_, _)
combineFrom(map, raw) ==
  IF raw = <<>> THEN map ELSE combineFrom(combineHolding(map, Head(raw)), Tail(raw))

combineHoldings(raw) == combineFrom(<<>>, raw)

-----------------------------------------------------------------------------
(* MasterTable.tsx: the summary range and the period groups *)

\* Unique base dates of the date keys, sorted by date.
baseDatesSortedOf(dateKeys) ==
  LET uniq == Uniq([i \in 1..Len(dateKeys) |-> getBaseDate(dateKeys[i])])
  IN SortBy(uniq, [i \in 1..Len(uniq) |-> <<parseDate(uniq[i])>>])

effectiveSummaryFromOf(dateKeys, fromBase) ==
  LET bds == baseDatesSortedOf(dateKeys)
  IN IF fromBase # "" THEN fromBase ELSE IF bds # <<>> THEN bds[1] ELSE ""

effectiveSummaryToOf(dateKeys, toBase) ==
  LET bds == baseDatesSortedOf(dateKeys)
  IN IF toBase # "" THEN toBase ELSE IF bds # <<>> THEN bds[Len(bds)] ELSE ""

\* Variant that keeps the endpoints as chosen.
normalizedRangeAsChosen(dateKeys, fromBase, toBase) ==
  [from |-> effectiveSummaryFromOf(dateKeys, fromBase),
   to |-> effectiveSummaryToOf(dateKeys, toBase)]

normalizedRangeOf(dateKeys, fromBase, toBase) ==
  LET from == effectiveSummaryFromOf(dateKeys, fromBase)
      to == effectiveSummaryToOf(dateKeys, toBase)
  IN IF from = "" \/ to = "" THEN [from |-> "", to |-> ""]
     ELSE IF parseDate(from) <= parseDate(to) THEN [from |-> from, to |-> to]
     ELSE [from |-> to, to |-> from]

\* Variant that takes every key up to the end of the range.
dateKeysUpToRangeEnd(dateKeys, range) ==
  IF range.from = "" \/ range.to = "" THEN dateKeys
  ELSE SelectSeq(dateKeys, LAMBDA dk : keyTime(dk) <= parseDate(range.to))

\* The date keys whose base date lies in the normalized range.
dateKeysInSummaryRangeOf(dateKeys, range) ==
  IF range.from = "" \/ range.to = "" THEN dateKeys
  ELSE SelectSeq(dateKeys,
         LAMBDA dk : /\ keyTime(dk) >= parseDate(range.from)
                     /\ keyTime(dk) <= parseDate(range.to))

\* fi ?? -1
groupKeyOf(dateKey) ==
  LET fi == getFileIndexFromDateKey(dateKey) IN IF fi = None THEN 0 - 1 ELSE fi[1]

\* Variant that sorts the groups by the date of their earliest key.
fileGroupsByEarliestKey(dateKeys) ==
  LET fis == Uniq([i \in 1..Len(dateKeys) |-> groupKeyOf(dateKeys[i])])
      group(fi) ==
        LET arr == SelectSeq(dateKeys, LAMBDA dk : groupKeyOf(dk) = fi)
        IN [fileIndex |-> fi,
            dateKeys |-> SortBy(arr, [i \in 1..Len(arr) |-> <<keyTime(arr[i])>>])]
      groups == [i \in 1..Len(fis) |-> group(fis[i])]
  IN SortBy(groups, [i \in 1..Len(groups) |-> <<keyTime(groups[i].dateKeys[1])>>])

\* One group per file index, sorted by file index; the keys of a group sorted
\* by base date.
fileGroupsAscOf(dateKeys) ==
  LET fis == Uniq([i \in 1..Len(dateKeys) |-> groupKeyOf(dateKeys[i])])
      sortedKeys == SortBy(fis, [i \in 1..Len(fis) |-> <<fis[i]>>])
      group(fi) ==
        LET arr == SelectSeq(dateKeys, LAMBDA dk : groupKeyOf(dk) = fi)
        IN [fileIndex |-> fi,
            dateKeys |-> SortBy(arr, [i \in 1..Len(arr) |-> <<keyTime(arr[i])>>])]
  IN [i \in 1..Len(sortedKeys) |-> group(sortedKeys[i])]

\* buildExportMatrixFromDbRows: the file groups of the rows of the table,
\* built as the browser builds them.
exportFileGroupsOf(rows) ==
  fileGroupsAscOf(Uniq([i \in 1..Len(rows) |-> rows[i].dateKey]))

\* Array.find: the first key of the group at this position, None if none.
findKeyAtPos(dateKeys, pos) ==
  LET hits == SelectSeq(dateKeys, LAMBDA k : getSnapshotPosFromDateKey(k) = Some(pos))
  IN IF hits = <<>> THEN None ELSE hits[1]

\* The first and second key of one file group that lie in the range.
periodGroupOf(g, inRange) ==
  LET k1 == findKeyAtPos(g.dateKeys, 1)
      k2 == findKeyAtPos(g.dateKeys, 2)
  IN [fileIndex |-> g.fileIndex,
      firstKey |-> IF k1 # None /\ k1 \in inRange THEN k1 ELSE None,
      secondKey |-> IF k2 # None /\ k2 \in inRange THEN k2 ELSE None]

\* Groups with neither key in range are dropped.
summaryPeriodGroupsOf(groupsAsc, keysInRange) ==
  LET inRange == Range(keysInRange)
      mapped == [i \in 1..Len(groupsAsc) |-> periodGroupOf(groupsAsc[i], inRange)]
  IN SelectSeq(mapped, LAMBDA g : ~(g.firstKey = None /\ g.secondKey = None))

-----------------------------------------------------------------------------
(* MasterTable.tsx: rawSummaryRows *)

HasDv(h, key) == key # None /\ key \in DOMAIN h.dateValues

\* Variant that takes the second value as the baseline.
reconstructInitialRaw(dv2) == dv2.value

\* Baseline of a holding that first appears in a second snapshot:
\* v2 - (b - s).
reconstructInitial(dv2) == dv2.value - (dv2.bought - dv2.sold)

\* First loop: the start group and the end group of one holding.
RECURSIVE scanGroups(_, _, _, _)
scanGroups(h, groups, i, acc) ==
  IF i > Len(groups) THEN acc
  ELSE
    LET g == groups[i]
        has1 == HasDv(h, g.firstKey)
        has2 == HasDv(h, g.secondKey)
        acc1 ==
          IF acc.startIdx # 0 THEN acc
          ELSE IF has1
          THEN [acc EXCEPT !.startIdx = i,
                           !.initialHolding = h.dateValues[g.firstKey].value]
          ELSE IF has2
          THEN [acc EXCEPT !.startIdx = i,
                           !.initialHolding =
                             reconstructInitial(h.dateValues[g.secondKey])]
          ELSE acc
        acc2 ==
          IF has2
          THEN [acc1 EXCEPT !.endIdx = i, !.endMode = "pos2",
                            !.endSnapshotValue = h.dateValues[g.secondKey].value]
          ELSE IF has1
          THEN [acc1 EXCEPT !.endIdx = i, !.endMode = "pos1",
                            !.endSnapshotValue = h.dateValues[g.firstKey].value]
          ELSE acc1
    IN scanGroups(h, groups, i + 1, acc2)

\* Variant that never includes the deltas of the end group.
deltasBeforeEnd(h, groups, scan, field) ==
  LET term(i) == IF HasDv(h, groups[i].secondKey) /\ i < scan.endIdx
                 THEN h.dateValues[groups[i].secondKey][field] ELSE 0
  IN IF scan.startIdx = 0 THEN 0
     ELSE SeqSum([k \in 1..(scan.endIdx - scan.startIdx + 1) |->
                    term(scan.startIdx + k - 1)])

\* Second loop: the second-key deltas from the start group to the end group.
deltasOf(h, groups, scan, field) ==
  LET include(i) == i < scan.endIdx \/ (i = scan.endIdx /\ scan.endMode = "pos2")
      term(i) == IF HasDv(h, groups[i].secondKey) /\ include(i)
                 THEN h.dateValues[groups[i].secondKey][field] ELSE 0
  IN IF scan.startIdx = 0 THEN 0
     ELSE SeqSum([k \in 1..(scan.endIdx - scan.startIdx + 1) |->
                    term(scan.startIdx + k - 1)])

\* Variant that shows the raw end snapshot.
stillHoldingOfEndSnapshot(initialHolding, net, endSnapshotValue) == endSnapshotValue

\* Reconciled "Still Holding".
stillHoldingOf(initialHolding, net, endSnapshotValue) == initialHolding + net

rawSummaryRow(h, groups) ==
  LET scan == scanGroups(h, groups, 1,
                [startIdx |-> 0, endIdx |-> 0, endMode |-> "pos1",
                 initialHolding |-> 0, endSnapshotValue |-> 0])
  IN IF scan.startIdx = 0 \/ scan.endIdx = 0
     THEN [id |-> h.id, category |-> h.category, initialHolding |-> 0,
           bought |-> 0, sold |-> 0, net |-> 0, stillHolding |-> 0]
     ELSE LET totalBought == deltasOf(h, groups, scan, "bought")
              totalSold == deltasOf(h, groups, scan, "sold")
              net == totalBought - totalSold
          IN [id |-> h.id, category |-> h.category,
              initialHolding |-> scan.initialHolding,
              bought |-> totalBought, sold |-> totalSold, net |-> net,
              stillHolding |->
                stillHoldingOf(scan.initialHolding, net, scan.endSnapshotValue)]

\* Variant that leaves out the identities with no data in range.
summaryRowsForOmitEmpty(raw, dateKeys, fromBase, toBase) ==
  LET filteredData == combineHoldings(raw)
      range == normalizedRangeOf(dateKeys, fromBase, toBase)
      groups == summaryPeriodGroupsOf(fileGroupsAscOf(dateKeys),
                                      dateKeysInSummaryRangeOf(dateKeys, range))
      present == SelectSeq(filteredData,
                   LAMBDA h : \E i \in 1..Len(groups) :
                                HasDv(h, groups[i].firstKey) \/ HasDv(h, groups[i].secondKey))
  IN [i \in 1..Len(present) |-> rawSummaryRow(present[i], groups)]

\* The summary rows for given holdings, date keys and range selectors.  The
\* search box and the column filters of the matrix are left at their
\* defaults, so filteredData is combinedHoldings.
summaryRowsFor(raw, dateKeys, fromBase, toBase) ==
  LET filteredData == combineHoldings(raw)
      range == normalizedRangeOf(dateKeys, fromBase, toBase)
      groups == summaryPeriodGroupsOf(fileGroupsAscOf(dateKeys),
                                      dateKeysInSummaryRangeOf(dateKeys, range))
  IN [i \in 1..Len(filteredData) |-> rawSummaryRow(filteredData[i], groups)]

\* The same rows from the memoised filteredData and fileGroupsAsc: only the
\* range-dependent part is recomputed when a selector changes.
summaryRowsOver(filteredData, groupsAsc, dateKeys, fromBase, toBase) ==
  LET range == normalizedRangeOf(dateKeys, fromBase, toBase)
      groups == summaryPeriodGroupsOf(groupsAsc,
                                      dateKeysInSummaryRangeOf(dateKeys, range))
  IN [i \in 1..Len(filteredData) |-> rawSummaryRow(filteredData[i], groups)]

\* The derived values of the mounted MasterTable.
combinedHoldings == combineHoldings(holdings)
baseDatesSorted == baseDatesSortedOf(dates)
normalizedRange == normalizedRangeOf(dates, summaryFromBase, summaryToBase)
dateKeysInSummaryRange == dateKeysInSummaryRangeOf(dates, normalizedRange)
fileGroupsAsc == fileGroupsAscOf(dates)
fileGroups ==
  IF dateOrder = "asc" THEN fileGroupsAsc
  ELSE [i \in 1..Len(fileGroupsAsc) |-> fileGroupsAsc[Len(fileGroupsAsc) + 1 - i]]

\* Variant that walks the groups in the order the matrix shows them.
summaryPeriodGroupsAsShown == summaryPeriodGroupsOf(fileGroups, dateKeysInSummaryRange)

summaryPeriodGroups == summaryPeriodGroupsOf(fileGroupsAsc, dateKeysInSummaryRange)
rawSummaryRows == summaryRowsFor(holdings, dates, summaryFromBase, summaryToBase)

-----------------------------------------------------------------------------
(* server.cjs: persistHoldingsToDb *)

\* The rows of one holding: one per date value.  The order of the entries
\* does not matter to any reader: every query orders the rows.
RECURSIVE rowsOfHolding(_, _)
rowsOfHolding(h, keys) ==
  IF keys = {} THEN <<>>
  ELSE LET dk == CHOOSE k \in keys : TRUE
       IN <<[rowKey |-> h.id, dpid |-> h.dpid, clientId |-> h.clientId,
             name |-> h.name, category |-> h.category, dateKey |-> dk,
             baseDate |-> keyTime(dk), value |-> h.dateValues[dk].value,
             bought |-> h.dateValues[dk].bought, sold |-> h.dateValues[dk].sold]>>
            \o rowsOfHolding(h, keys \ {dk})

\* Rows whose base date does not parse are skipped.
RECURSIVE persistHoldingsToDb(_)
persistHoldingsToDb(hs) ==
  IF hs = <<>> THEN <<>>
  ELSE rowsOfHolding(Head(hs), {dk \in DOMAIN Head(hs).dateValues : keyTime(dk) # 0})
         \o persistHoldingsToDb(Tail(hs))

\* The import requests and their payloads: the holdings of one file of
\* holders A and B, or of holder A alone, with both snapshots on one day.
ImportRequests == 1..MaxRequests

ImportPayloads ==
  {consolidateData(<<ReconFile(<<d, d>>, k)>>).holdings : d \in 1..MaxDate, k \in 1..2}

\* IX_pesa_data_rowKey_dateKey: the unique index of the table.
indexKeysOf(rows) == {<<rows[i].rowKey, rows[i].dateKey>> : i \in 1..Len(rows)}

-----------------------------------------------------------------------------
(* server.cjs: the login codes and the session gate *)

\* The allow-list (its fallback) and the emails requests carry.
ALLOWED == {"vcs@premierenergies.com", "saluja@premierenergies.com"}
Emails == ALLOWED \cup {"x@elsewhere.com"}
isAllowed(email) == email \in ALLOWED

\* The six-digit codes Math.random can give, two of them.
OtpCodes == {"100000", "999999"}

VerifyRequests == 1..MaxRequests

\* A session cookie is absent or holds a token: the key it was signed with
\* and the email of its payload.  jwt.verify accepts the tokens signed with
\* SESSION_JWT_SECRET only.
SESSION_JWT_SECRET == "PESA_JWT_SECRET"

issueSession(email) == [key |-> SESSION_JWT_SECRET, email |-> email]

Cookies ==
  {None} \cup {Some([key |-> k, email |-> e]) :
                 k \in {SESSION_JWT_SECRET, "forged"}, e \in Emails}

readSession(cookie) ==
  IF cookie = None THEN None
  ELSE IF cookie[1].key # SESSION_JWT_SECRET THEN None
  ELSE Some([email |-> cookie[1].email])

\* A path is the sequence of its segments: /api/pesa/clear is
\* <<"api", "pesa", "clear">>.  toLowerCase of the segments requests carry.
toLowerCase(segment) ==
  CASE segment = "API" -> "api"
    [] segment = "Pesa" -> "pesa"
    [] OTHER -> segment

lowerPath(path) == [i \in 1..Len(path) |-> toLowerCase(path[i])]

\* String.startsWith of a path for "/<segment>/".
pathStartsWith(path, segment) == Len(path) > 1 /\ path[1] = segment

\* The gate: the code the request is answered with, or "next".
authGate(path, cookie) ==
  IF ~pathStartsWith(path, "api") /\ ~pathStartsWith(path, "auth") THEN "next"
  ELSE IF path \in {<<"api", "health">>, <<"health">>, <<"api", "session">>,
                    <<"api", "send-otp">>, <<"api", "verify-otp">>,
                    <<"auth", "logout">>} THEN "next"
  ELSE LET session == readSession(cookie)
       IN IF session = None THEN "401"
          ELSE IF ~isAllowed(session[1].email) THEN "403"
          ELSE "next"

\* The routes in the order they are registered.  The application leaves
\* "case sensitive routing" unset, so a route matches a path whatever the
\* case of its letters.
Routes ==
  <<[method |-> "GET", path |-> <<"api", "session">>, handler |-> "session"],
    [method |-> "POST", path |-> <<"auth", "logout">>, handler |-> "logout"],
    [method |-> "POST", path |-> <<"api", "send-otp">>, handler |-> "send-otp"],
    [method |-> "POST", path |-> <<"api", "verify-otp">>, handler |-> "verify-otp"],
    [method |-> "POST", path |-> <<"api", "pesa", "import">>, handler |-> "import"],
    [method |-> "POST", path |-> <<"api", "pesa", "clear">>, handler |-> "clear"],
    [method |-> "GET", path |-> <<"api", "pesa", "export", "xlsx">>,
     handler |-> "export"],
    [method |-> "GET", path |-> <<"api", "pesa", "rn">>, handler |-> "rn"]>>

routeMatches(route, method, path) ==
  route.method = method /\ lowerPath(path) = route.path

\* The handler a request that passed the gate is given to: the first route
\* that matches, else the 404 of app.use("/api"), else the static files.
routeOf(method, path) ==
  LET matching == {i \in 1..Len(Routes) : routeMatches(Routes[i], method, path)}
  IN IF matching # {}
     THEN Routes[CHOOSE i \in matching : \A j \in matching : i <= j].handler
     ELSE IF path # <<>> /\ toLowerCase(path[1]) = "api" THEN "notFound"
     ELSE "static"

\* The requests of the gate's model.
Methods == {"GET", "POST"}

Paths ==
  {<<"api", "health">>, <<"api", "session">>, <<"api", "pesa", "clear">>,
   <<"api", "pesa", "import">>, <<"api", "pesa", "rn">>, <<"api", "else">>,
   <<"API", "pesa", "clear">>, <<"api", "Pesa", "clear">>,
   <<"API", "pesa", "import">>, <<"index.html">>}

-----------------------------------------------------------------------------
(* server.cjs: GET /api/pesa/rn, the streamed aggregation *)

ExcelSerialBase == 45991   \* serial of 30-11-2025, counted from 1899-12-30

\* DD-MM-YYYY -> Excel serial, None when the text holds no date.
toExcelSerialFromDDMMYYYY(baseStr) ==
  IF parseDate(baseStr) = 0 THEN None
  ELSE Some(ExcelSerialBase + parseDate(baseStr))

\* Collation order of the characters that occur in ids and names.
CharCode(c) ==
  CASE c = " " -> 32 [] c = "-" -> 45 [] c = "." -> 46 [] c = "A" -> 65
    [] c = "B" -> 66 [] c = "C" -> 67 [] c = "D" -> 68 [] c = "|" -> 124
    [] OTHER -> 127

\* Sort key of a text: its character codes and a terminator.
TextKey(t) == [i \in 1..Len(t) |-> CharCode(t[i])] \o <<0>>

OptNum(o) == IF o = None THEN 0 - 1 ELSE o[1]

\* ORDER BY baseDate, dateKey, dpid, clientId, name.  Among keys of one base
\* date the key text orders by file index, then position (single digits).
orderedRowsOf(rows) ==
  SortBy(rows,
    [i \in 1..Len(rows) |->
       <<rows[i].baseDate, OptNum(getFileIndexFromDateKey(rows[i].dateKey)),
         OptNum(getSnapshotPosFromDateKey(rows[i].dateKey))>>
         \o TextKey(rows[i].dpid) \o TextKey(rows[i].clientId)
         \o TextKey(rows[i].name)])

\* String(dateKey).includes("@@")
includesSep(dateKey) == \E i \in 1..Len(dateKey) : dateKey[i] = "@@"

\* snapshotPos of a row: the decoded position, 0 when the meta does not
\* decode, 2 when the key has no "@@".
snapshotPosOf(dateKey) ==
  LET raw == getSnapshotPosFromDateKey(dateKey)
  IN IF raw # None THEN raw[1] ELSE IF includesSep(dateKey) THEN 0 ELSE 2

\* rank = serial * 10 + snapshotPos, None when the date does not parse.
rankOf(dateKey) ==
  LET serial == toExcelSerialFromDDMMYYYY(getBaseDate(dateKey))
  IN IF serial = None THEN None ELSE Some(serial[1] * 10 + snapshotPosOf(dateKey))

\* minRank / maxRank start at +Infinity / -Infinity: None.
newAgg(key, dpid, clientId, category, nameNorm) ==
  [id |-> key, dpid |-> dpid, clientId |-> clientId, category |-> category,
   name |-> nameNorm, minRank |-> None, minPos |-> 0, minValue |-> 0,
   minBought |-> 0, minSold |-> 0, maxRank |-> None, boughtSum |-> 0,
   soldSum |-> 0]

\* The update of the per-key aggregate by one row.
updateAgg(agg, rank, snapshotPos, value, bought, sold) ==
  LET a1 == IF rank # None /\ (agg.minRank = None \/ rank[1] < agg.minRank[1])
            THEN [agg EXCEPT !.minRank = rank, !.minPos = snapshotPos,
                             !.minValue = value, !.minBought = bought,
                             !.minSold = sold]
            ELSE agg
      a2 == IF rank # None /\ (a1.maxRank = None \/ rank[1] > a1.maxRank[1])
            THEN [a1 EXCEPT !.maxRank = rank] ELSE a1
  IN IF snapshotPos = 2
     THEN [a2 EXCEPT !.boughtSum = @ + bought, !.soldSum = @ + sold]
     ELSE a2

\* request.on("row"): aggregation part.
aggAfterRow(map, row) ==
  LET nameNorm == normalizeName(row.name)
      key == combinedKeyOf(row.dpid, row.clientId, nameNorm)
      idx == IndexOfId(map, key)
      map1 == IF idx = 0
              THEN Append(map, newAgg(key, row.dpid, row.clientId, row.category,
                                      nameNorm))
              ELSE [map EXCEPT ![idx].category =
                      IF @ = "" /\ row.category # "" THEN row.category ELSE @]
      j == IF idx = 0 THEN Len(map1) ELSE idx
  IN [map1 EXCEPT ![j] = updateAgg(@, rankOf(row.dateKey),
                                   snapshotPosOf(row.dateKey), row.value,
                                   row.bought, row.sold)]

\* The aggregation after a sequence of rows has streamed past.
RECURSIVE aggregateFrom(_, _)
aggregateFrom(map, rows) ==
  IF rows = <<>> THEN map
  ELSE aggregateFrom(aggAfterRow(map, Head(rows)), Tail(rows))

\* request.on("row"): the row written to the ByDate sheet.
byDateRowOf(row) ==
  LET key == combinedKeyOf(row.dpid, row.clientId, normalizeName(row.name))
      rank == rankOf(row.dateKey)
  IN [baseStr |-> getBaseDate(row.dateKey),
      baseDateExcel |-> toExcelSerialFromDDMMYYYY(getBaseDate(row.dateKey)),
      snapshotPos |-> snapshotPosOf(row.dateKey), key |-> key,
      keyDateRank |-> rank,
      keyRank |-> IF rank = None THEN None ELSE <<key, rank[1]>>,
      value |-> row.value, bought |-> row.bought, sold |-> row.sold,
      dateKey |-> row.dateKey]

\* request.on("done"): the Summary row of one aggregate.
summaryOfAgg(a) ==
  LET initial == IF a.minPos = 1 THEN a.minValue
                 ELSE a.minValue - (a.minBought - a.minSold)
      net == a.boughtSum - a.soldSum
  IN [id |-> a.id, category |-> a.category, initial |-> initial,
      bought |-> a.boughtSum, sold |-> a.soldSum, net |-> net,
      still |-> initial + net]

\* The Summary rows, sorted by net descending.
summaryRowsOfAggs(map) ==
  LET rows == [i \in 1..Len(map) |-> summaryOfAgg(map[i])]
  IN SortBy(rows, [i \in 1..Len(rows) |-> <<0 - rows[i].net>>])

-----------------------------------------------------------------------------
(* server.cjs: the Lists, Controls and SummaryDynamic sheets *)

\* formatDropdownLabelFromBase without the year: "DD Mon".
formatDropdownLabelFromBase(baseStr) ==
  IF parseDate(baseStr) = 0 THEN baseStr
  ELSE "0" \o ToString(parseDate(baseStr)) \o " Dec"

\* Lists sheet: label and serial of every base date streamed, by serial.
listsOf(sheet) ==
  LET dated == SelectSeq(sheet, LAMBDA r : r.baseDateExcel # None)
      serials == Uniq([i \in 1..Len(dated) |-> dated[i].baseDateExcel[1]])
      sorted == SortBy(serials, [i \in 1..Len(serials) |-> <<serials[i]>>])
      baseOf(ser) == (CHOOSE i \in 1..Len(dated) :
                        /\ dated[i].baseDateExcel[1] = ser
                        /\ \A j \in 1..(i - 1) : dated[j].baseDateExcel[1] # ser)
  IN [i \in 1..Len(sorted) |->
        [label |-> formatDropdownLabelFromBase(dated[baseOf(sorted[i])].baseStr),
         serial |-> sorted[i]]]

\* XLOOKUP(label, Lists!A, Lists!B, ""): the serial of the first match.
lookupSerial(lists, label) ==
  LET hits == SelectSeq(lists, LAMBDA e : e.label = label)
  IN IF hits = <<>> THEN None ELSE Some(hits[1].serial)

Min2(a, b) == IF a <= b THEN a ELSE b
Max2(a, b) == IF a >= b THEN a ELSE b

\* Controls!B5 and B6: MIN and MAX of the two looked-up serials (a text
\* result "" is ignored by MIN and MAX; both missing gives 0).
startCellOf(lists, from, to) ==
  LET f == lookupSerial(lists, from)
      t == lookupSerial(lists, to)
  IN IF f = None /\ t = None THEN 0
     ELSE IF f = None THEN t[1] ELSE IF t = None THEN f[1] ELSE Min2(f[1], t[1])

endCellOf(lists, from, to) ==
  LET f == lookupSerial(lists, from)
      t == lookupSerial(lists, to)
  IN IF f = None /\ t = None THEN 0
     ELSE IF f = None THEN t[1] ELSE IF t = None THEN f[1] ELSE Max2(f[1], t[1])

\* Rows of the ByDate sheet of key k whose date lies in [st, en].
inRangeRowsOf(sheet, k, st, en) ==
  SelectSeq(sheet, LAMBDA r : /\ r.key = k
                              /\ r.baseDateExcel # None
                              /\ r.baseDateExcel[1] >= st
                              /\ r.baseDateExcel[1] <= en)

\* MINIFS(KeyDateRank, Key, k, BaseDateExcel, ">="&st, BaseDateExcel, "<="&en):
\* 0 when no row matches.
minIfsRank(sheet, k, st, en) ==
  LET rows == inRangeRowsOf(sheet, k, st, en)
  IN IF rows = <<>> THEN 0
     ELSE CHOOSE m \in {rows[i].keyDateRank[1] : i \in 1..Len(rows)} :
            \A i \in 1..Len(rows) : m <= rows[i].keyDateRank[1]

\* XLOOKUP(k&"|"&sr, KeyRank, column, 0): the first row with that KeyRank.
xlookupKeyRank(sheet, k, sr, column) ==
  LET hits == SelectSeq(sheet, LAMBDA r : r.keyRank = <<k, sr>>)
  IN IF hits = <<>> THEN 0 ELSE hits[1][column]

\* SummaryDynamic column F.
initialFormula(sheet, k, st, en) ==
  LET sr == minIfsRank(sheet, k, st, en)
      sp == xlookupKeyRank(sheet, k, sr, "snapshotPos")
      sv == xlookupKeyRank(sheet, k, sr, "value")
      sb == xlookupKeyRank(sheet, k, sr, "bought")
      ss == xlookupKeyRank(sheet, k, sr, "sold")
  IN IF sp = 1 THEN sv ELSE sv - (sb - ss)

\* SummaryDynamic columns G and H: SUMIFS over the in-range position-2 rows.
sumIfsFormula(sheet, k, st, en, column) ==
  LET rows == SelectSeq(inRangeRowsOf(sheet, k, st, en),
                        LAMBDA r : r.snapshotPos = 2)
  IN SeqSum([i \in 1..Len(rows) |-> rows[i][column]])

\* One row of SummaryDynamic as the spreadsheet evaluates it.
summaryDynamicRow(sheet, k, st, en) ==
  LET initial == initialFormula(sheet, k, st, en)
      bought == sumIfsFormula(sheet, k, st, en, "bought")
      sold == sumIfsFormula(sheet, k, st, en, "sold")
  IN [id |-> k, initial |-> initial, bought |-> bought, sold |-> sold,
      net |-> bought - sold, still |-> initial + (bought - sold)]

-----------------------------------------------------------------------------
(* Browser actions *)

hasData == Len(holdings) > 0

\* Index.handleFilesSelected: the upload widget is rendered only while there
\* is no data.  The parsed batch is consolidated, stored, and posted to
\* /api/pesa/import, which replaces the rows of dbo.pesa_data.
HandleFilesSelected(files) ==
  /\ ~hasData
  /\ Len(files) > 0
  /\ LET result == consolidateData(files)
     IN /\ parsedFiles' = files
        /\ holdings' = result.holdings
        /\ dates' = result.dates
        /\ dbRows' = persistHoldingsToDb(result.holdings)
  /\ UNCHANGED <<fnVars, viewVars, srvVars>>
  /\ UNCHANGED <<earlierFiles, summaryFromBase, summaryToBase, rnVars>>

\* The options of the two selectors: "" ("Auto") and the base dates.
summaryRangeOptions == {""} \cup Range(baseDatesSorted)

\* MasterTable "From" selector: d is one of its options.
SetSummaryFromBase(d) ==
  /\ hasData
  /\ d # summaryFromBase
  /\ summaryFromBase' = d
  /\ UNCHANGED <<fnVars, viewVars, srvVars>>
  /\ UNCHANGED <<parsedFiles, earlierFiles, holdings, dates, summaryToBase,
                 dbRows, rnVars>>

\* MasterTable "To" selector.
SetSummaryToBase(d) ==
  /\ hasData
  /\ d # summaryToBase
  /\ summaryToBase' = d
  /\ UNCHANGED <<fnVars, viewVars, srvVars>>
  /\ UNCHANGED <<parsedFiles, earlierFiles, holdings, dates, summaryFromBase,
                 dbRows, rnVars>>

\* MasterTable.handleClearDataClick: POST /api/pesa/clear truncates the
\* table, then Index.handleClearData empties the local state and the
\* MasterTable (with its selectors) is unmounted.
HandleClearData ==
  /\ hasData
  /\ dbRows' = <<>>
  /\ holdings' = <<>>
  /\ dates' = <<>>
  /\ parsedFiles' = <<>>
  /\ earlierFiles' = <<>>
  /\ summaryFromBase' = ""
  /\ summaryToBase' = ""
  /\ UNCHANGED <<fnVars, viewVars, srvVars>>
  /\ UNCHANGED rnVars

\* The "Upload More Files" button, rendered while there is data: the local
\* state is emptied (the MasterTable is unmounted, the upload widget shown);
\* the saved holdings and the rows of the server stay.  The files seen so
\* far are remembered, MaxFiles of them at most.
UploadMoreFiles ==
  /\ hasData
  /\ Len(earlierFiles) + Len(parsedFiles) <= MaxFiles
  /\ holdings' = <<>>
  /\ dates' = <<>>
  /\ summaryFromBase' = ""
  /\ summaryToBase' = ""
  /\ earlierFiles' = earlierFiles \o parsedFiles
  /\ UNCHANGED <<parsedFiles, dbRows, rnVars, fnVars, viewVars, srvVars>>

\* Index.handleFilesSelected from the File objects on: the files are parsed,
\* those that resolve to null are left out, and the rest is consolidated,
\* stored and posted as in HandleFilesSelected.  With no file left the
\* handler shows an error and returns.
HandleSheetsSelected(files) ==
  /\ ~hasData
  /\ LET parsed == parsedFilesOf(files)
     IN /\ Len(parsed) > 0
        /\ LET result == consolidateData(parsed)
           IN /\ parsedFiles' = parsed
              /\ holdings' = result.holdings
              /\ dates' = result.dates
              /\ dbRows' = persistHoldingsToDb(result.holdings)
  /\ arg' = files
  /\ UNCHANGED <<returned, earlierFiles, summaryFromBase, summaryToBase, rnVars,
               viewVars, srvVars>>

\* The summary rows of the mounted table: one per combined record, from the
\* period groups.
summaryRowsShown ==
  LET combined == combinedHoldings
      groups == summaryPeriodGroups
  IN [i \in 1..Len(combined) |-> rawSummaryRow(combined[i], groups)]

\* MasterTable.toggleDateOrder: the Reverse Dates button.  What the summary
\* shows at that moment is kept in beforeToggle.
ToggleDateOrder ==
  /\ hasData
  /\ dateOrder' = IF dateOrder = "asc" THEN "desc" ELSE "asc"
  /\ beforeToggle' = <<[fromBase |-> summaryFromBase, toBase |-> summaryToBase,
                        groups |-> summaryPeriodGroups, rows |-> summaryRowsShown]>>
  /\ UNCHANGED <<browserVars, dbRows, rnVars, fnVars, srvVars>>

\* The page and the server before any upload, no export requested.
InitProgram ==
  /\ parsedFiles = <<>>
  /\ earlierFiles = <<>>
  /\ holdings = <<>>
  /\ dates = <<>>
  /\ summaryFromBase = ""
  /\ summaryToBase = ""
  /\ dbRows = <<>>
  /\ rnPc = "idle"
  /\ rnRows = <<>>
  /\ rnPos = 0
  /\ aggMap = <<>>
  /\ byDate = <<>>
  /\ summarySheet = <<>>
  /\ controlsFrom = ""
  /\ controlsTo = ""
  /\ dateOrder = "asc"
  /\ beforeToggle = <<>>
  /\ imports = [r \in ImportRequests |->
                  [pc |-> "idle", rows |-> <<>>, before |-> <<>>, arrived |-> 0]]
  /\ importLog = <<>>
  /\ otpStore = [e \in Emails |-> ""]
  /\ verifies = [r \in VerifyRequests |->
                   [pc |-> "idle", email |-> "", otp |-> "", sends |-> 0,
                    issuedBefore |-> {}]]
  /\ mailed = <<>>
  /\ served = <<>>

Init ==
  /\ InitProgram
  /\ arg = <<>>
  /\ returned = <<>>

\* GET /api/pesa/rn: the query is issued; its result set is fixed.
RnStart ==
  /\ rnPc = "idle"
  /\ rnPc' = "streaming"
  /\ rnRows' = orderedRowsOf(dbRows)
  /\ rnPos' = 0
  /\ aggMap' = <<>>
  /\ byDate' = <<>>
  /\ UNCHANGED <<fnVars, viewVars, srvVars>>
  /\ UNCHANGED <<browserVars, dbRows, summarySheet, controlsFrom, controlsTo>>

\* request.on("row"): the next row of the stream.
RnRow ==
  /\ rnPc = "streaming"
  /\ rnPos < Len(rnRows)
  /\ rnPos' = rnPos + 1
  /\ aggMap' = aggAfterRow(aggMap, rnRows[rnPos + 1])
  /\ byDate' = Append(byDate, byDateRowOf(rnRows[rnPos + 1]))
  /\ UNCHANGED <<fnVars, viewVars, srvVars>>
  /\ UNCHANGED <<browserVars, dbRows, rnPc, rnRows, summarySheet, controlsFrom,
                 controlsTo>>

\* request.on("done"): Summary, Lists, Controls (defaults: the first and the
\* last date) and SummaryDynamic are written and the workbook is committed.
RnDone ==
  /\ rnPc = "streaming"
  /\ rnPos = Len(rnRows)
  /\ rnPc' = "done"
  /\ summarySheet' = summaryRowsOfAggs(aggMap)
  /\ LET lists == listsOf(byDate)
     IN /\ controlsFrom' = IF lists = <<>> THEN "" ELSE lists[1].label
        /\ controlsTo' = IF lists = <<>> THEN "" ELSE lists[Len(lists)].label
  /\ UNCHANGED <<fnVars, viewVars, srvVars>>
  /\ UNCHANGED <<browserVars, dbRows, rnRows, rnPos, aggMap, byDate>>

\* The dropdown of Controls!B2 and B3: the labels of the Lists sheet.
controlsLabelOptions ==
  LET lists == listsOf(byDate) IN {lists[i].label : i \in 1..Len(lists)}

\* The user of the workbook picks Controls!B2 from the dropdown.
SetControlsFrom(label) ==
  /\ rnPc = "done"
  /\ label # controlsFrom
  /\ controlsFrom' = label
  /\ UNCHANGED <<fnVars, viewVars, srvVars>>
  /\ UNCHANGED <<browserVars, dbRows, rnPc, rnRows, rnPos, aggMap, byDate,
                 summarySheet, controlsTo>>

\* The user of the workbook picks Controls!B3 from the dropdown.
SetControlsTo(label) ==
  /\ rnPc = "done"
  /\ label # controlsTo
  /\ controlsTo' = label
  /\ UNCHANGED <<fnVars, viewVars, srvVars>>
  /\ UNCHANGED <<browserVars, dbRows, rnPc, rnRows, rnPos, aggMap, byDate,
                 summarySheet, controlsFrom>>

Upload == \E files \in Batches : HandleFilesSelected(files)
SelectFrom == \E d \in summaryRangeOptions : SetSummaryFromBase(d)
SelectTo == \E d \in summaryRangeOptions : SetSummaryToBase(d)

Next == Upload \/ SelectFrom \/ SelectTo \/ HandleClearData

Spec == Init /\ [][Next]_vars

SelectControlsFrom == \E label \in controlsLabelOptions : SetControlsFrom(label)
SelectControlsTo == \E label \in controlsLabelOptions : SetControlsTo(label)

\* The upload followed by the export of the workbook and its use.
NextServer ==
  Upload \/ RnStart \/ RnRow \/ RnDone \/ SelectControlsFrom \/ SelectControlsTo

SpecServer == Init /\ [][NextServer]_vars

\* The upload, the export and the control cells, for the range endpoints.
NextRange ==
  Upload \/ RnStart \/ RnRow \/ RnDone \/ SelectControlsFrom \/ SelectControlsTo

SpecRange == Init /\ [][NextRange]_vars

\* Uploads of the merge batches.
MergeUpload == \E files \in MergeBatches : HandleFilesSelected(files)

NextMerge == MergeUpload \/ HandleClearData

SpecMerge == Init /\ [][NextMerge]_vars

\* Uploads of a file selected twice, and the range selectors.
DoubleUpload == \E files \in DoubleBatches : HandleFilesSelected(files)

NextDouble == DoubleUpload \/ SelectFrom \/ SelectTo \/ HandleClearData

SpecDouble == Init /\ [][NextDouble]_vars

\* Uploads of sheets with any of their columns.
SheetUpload == \E files \in SheetBatches : HandleSheetsSelected(files)

NextSheets == SheetUpload

SpecSheets == Init /\ [][NextSheets]_vars

\* Uploads of sheets with a text in a number cell.
CellUpload == \E files \in CellBatches : HandleSheetsSelected(files)

NextCells == CellUpload

SpecCells == Init /\ [][NextCells]_vars

\* One upload, of a batch or of a file with one holder, and the range
\* selectors.
WindowUpload == \E files \in Batches \cup SoloBatches : HandleFilesSelected(files)

NextWindow == WindowUpload \/ SelectFrom \/ SelectTo

SpecWindow == Init /\ [][NextWindow]_vars

\* One upload and the range selectors.
NextSelect == Upload \/ SelectFrom \/ SelectTo

SpecSelect == Init /\ [][NextSelect]_vars

\* The page with the Reverse Dates button.
NextView == Upload \/ SelectFrom \/ ToggleDateOrder

SpecView == Init /\ [][NextView]_vars

\* Uploads in several rounds.
NextMore == Upload \/ UploadMoreFiles \/ HandleClearData

SpecMore == Init /\ [][NextMore]_vars

\* Uploads of the files with separators in their id cells.
IdentityUpload == \E files \in IdentityBatches : HandleFilesSelected(files)

NextIdentity == IdentityUpload \/ HandleClearData

SpecIdentity == Init /\ [][NextIdentity]_vars

\* POST /api/pesa/import from any client: the payload is checked to hold two
\* arrays and replaces the rows of dbo.pesa_data.
ImportPayload(payloadHoldings) ==
  /\ dbRows' = persistHoldingsToDb(payloadHoldings)
  /\ UNCHANGED <<browserVars, rnVars, fnVars, viewVars, srvVars>>

Import == \E payloadHoldings \in Payloads : ImportPayload(payloadHoldings)

\* POST /api/pesa/import request by request.  persistHoldingsToDb awaits the
\* TRUNCATE statement, builds the rows, and awaits the bulk insert; other
\* requests run between the two statements.  A payload without rows answers
\* at once.
ImportTruncate(r, payloadHoldings) ==
  /\ imports[r].pc = "idle"
  /\ dbRows' = <<>>
  /\ LET rows == persistHoldingsToDb(payloadHoldings)
     IN IF rows = <<>>
        THEN /\ imports' = [imports EXCEPT ![r] =
                              [pc |-> "ok", rows |-> rows, before |-> dbRows,
                               arrived |-> Len(importLog)]]
             /\ importLog' = Append(importLog, r)
        ELSE /\ imports' = [imports EXCEPT ![r] =
                              [pc |-> "truncated", rows |-> rows, before |-> dbRows,
                               arrived |-> Len(importLog)]]
             /\ UNCHANGED importLog
  /\ UNCHANGED <<browserVars, rnVars, fnVars, viewVars, otpVars, served>>

\* The bulk insert: one statement, refused as a whole when a row repeats a
\* (rowKey, dateKey) of the table; the handler then answers 500.
ImportBulk(r) ==
  /\ imports[r].pc = "truncated"
  /\ IF indexKeysOf(imports[r].rows) \cap indexKeysOf(dbRows) # {}
     THEN /\ imports' = [imports EXCEPT ![r].pc = "failed"]
          /\ UNCHANGED dbRows
     ELSE /\ imports' = [imports EXCEPT ![r].pc = "ok"]
          /\ dbRows' = dbRows \o imports[r].rows
  /\ importLog' = Append(importLog, r)
  /\ UNCHANGED <<browserVars, rnVars, fnVars, viewVars, otpVars, served>>

\* The bulk insert rejected by the database or the connection: the handler
\* answers 500.
ImportBulkRejected(r) ==
  /\ imports[r].pc = "truncated"
  /\ imports' = [imports EXCEPT ![r].pc = "failed"]
  /\ importLog' = Append(importLog, r)
  /\ UNCHANGED <<dbRows, browserVars, rnVars, fnVars, viewVars, otpVars, served>>

NextImports ==
  \/ \E r \in ImportRequests : \E payloadHoldings \in ImportPayloads :
       ImportTruncate(r, payloadHoldings)
  \/ \E r \in ImportRequests : ImportBulk(r)
  \/ \E r \in ImportRequests : ImportBulkRejected(r)

SpecImports == Init /\ [][NextImports]_vars

\* POST /api/send-otp for an email of the allow-list: the code replaces the
\* one stored for the email and is mailed.
SendOtp(email, otp) ==
  /\ isAllowed(email)
  /\ Len(mailed) < MaxRequests
  /\ otpStore' = [otpStore EXCEPT ![email] = otp]
  /\ mailed' = Append(mailed, [email |-> email, otp |-> otp])
  /\ UNCHANGED <<verifies, dbRows, browserVars, rnVars, fnVars, viewVars, importVars,
                 served>>

\* POST /api/verify-otp up to the answer of the SELECT: 403 for an email off
\* the allow-list, 400 "Invalid OTP" when no row has the email and the code,
\* 400 "OTP expired" when the row is older than five minutes.
VerifySelect(r, email, otp, expired) ==
  /\ verifies[r].pc = "idle"
  /\ verifies' = [verifies EXCEPT ![r] =
       [pc |-> IF ~isAllowed(email) THEN "forbidden"
               ELSE IF otpStore[email] # otp THEN "invalid"
               ELSE IF expired THEN "expired"
               ELSE "found",
        email |-> email, otp |-> otp, sends |-> Len(mailed),
        issuedBefore |-> {q \in VerifyRequests : verifies[q].pc = "issued"}]]
  /\ UNCHANGED <<otpStore, mailed, dbRows, browserVars, rnVars, fnVars, viewVars,
                 importVars, served>>

\* The rest of the handler: the DELETE of the email's row, then the session
\* cookie.
VerifyBurn(r) ==
  /\ verifies[r].pc = "found"
  /\ otpStore' = [otpStore EXCEPT ![verifies[r].email] = ""]
  /\ verifies' = [verifies EXCEPT ![r].pc = "issued", ![r].sends = Len(mailed)]
  /\ UNCHANGED <<mailed, dbRows, browserVars, rnVars, fnVars, viewVars, importVars,
                 served>>

NextOtp ==
  \/ \E email \in Emails : \E otp \in OtpCodes : SendOtp(email, otp)
  \/ \E r \in VerifyRequests : \E email \in Emails : \E otp \in OtpCodes :
       \E expired \in BOOLEAN : VerifySelect(r, email, otp, expired)
  \/ \E r \in VerifyRequests : VerifyBurn(r)

SpecOtp == Init /\ [][NextOtp]_vars

\* One request to the server, from the gate to the answer of its handler.
\* The handlers of /api/pesa/rn and /api/session read only; the import
\* handler is taken with its two statements run together.
ServeRequest(method, path, cookie, payloadHoldings) ==
  /\ Len(served) < MaxRequests
  /\ LET gate == authGate(path, cookie)
         handler == IF gate = "next" THEN routeOf(method, path) ELSE "none"
         status ==
           IF gate # "next" THEN gate
           ELSE IF handler = "notFound" THEN "404"
           ELSE IF handler = "session" /\ readSession(cookie) = None THEN "401"
           ELSE "200"
         after ==
           IF handler = "clear" THEN <<>>
           ELSE IF handler = "import" THEN persistHoldingsToDb(payloadHoldings)
           ELSE dbRows
     IN /\ dbRows' = after
        /\ served' = Append(served,
             [method |-> method, path |-> path, cookie |-> cookie,
              handler |-> handler, status |-> status,
              before |-> dbRows, after |-> after])
  /\ UNCHANGED <<browserVars, rnVars, fnVars, viewVars, importVars, otpVars>>

NextGate ==
  \E method \in Methods : \E path \in Paths : \E cookie \in Cookies :
    \E payloadHoldings \in ImportPayloads :
      ServeRequest(method, path, cookie, payloadHoldings)

SpecGate == Init /\ [][NextGate]_vars

\* Imports of payloads and the export of the workbook.
NextImport == Import \/ RnStart \/ RnRow \/ RnDone

SpecImport == Init /\ [][NextImport]_vars

-----------------------------------------------------------------------------
(* The key decoders on their own *)

InitCodec ==
  /\ InitProgram
  /\ arg \in CodecKeys
  /\ returned = <<>>

\* One call of each decoder on the key.
Decode ==
  /\ arg \in CodecKeys
  /\ returned = <<>>
  /\ returned' = <<[baseDate |-> getBaseDate(arg),
                  fileIndex |-> getFileIndexFromDateKey(arg),
                  pos |-> getSnapshotPosFromDateKey(arg)]>>
  /\ UNCHANGED <<arg, browserVars, dbRows, rnVars, viewVars, srvVars>>

NextCodec == Decode

SpecCodec == InitCodec /\ [][NextCodec]_vars

-----------------------------------------------------------------------------
(* normalizeName on its own *)

InitNormalize ==
  /\ InitProgram
  /\ arg \in Names
  /\ returned = <<>>

\* A call of normalizeName: on the name, then on what the first call returned.
Normalize ==
  /\ arg \in Names
  /\ Len(returned) < 2
  /\ returned' = Append(returned,
                        normalizeName(IF returned = <<>> THEN arg
                                      ELSE returned[Len(returned)]))
  /\ UNCHANGED <<arg, browserVars, dbRows, rnVars, viewVars, srvVars>>

NextNormalize == Normalize

SpecNormalize == InitNormalize /\ [][NextNormalize]_vars

-----------------------------------------------------------------------------
(* Vocabulary of the properties *)

\* The period groups and the summary rows for a choice of the selectors.
groupsAt(f, t) ==
  summaryPeriodGroupsOf(fileGroupsAsc,
                        dateKeysInSummaryRangeOf(dates, normalizedRangeOf(dates, f, t)))

rowsAt(f, t) == summaryRowsFor(holdings, dates, f, t)

\* The date keys of holding h whose base date lies in the range chosen.
keysInRangeOf(h, f, t) ==
  LET range == normalizedRangeOf(dates, f, t)
  IN {dk \in DOMAIN h.dateValues :
        /\ keyTime(dk) >= parseDate(range.from)
        /\ keyTime(dk) <= parseDate(range.to)}

isZeroRow(r) ==
  /\ r.initialHolding = 0 /\ r.bought = 0 /\ r.sold = 0
  /\ r.net = 0 /\ r.stillHolding = 0

\* The export has streamed the rows that the browser holds.
exportIsCurrent == rnPc = "done" /\ hasData /\ rnRows = orderedRowsOf(dbRows)

-----------------------------------------------------------------------------
(* C1 *)

-----------------------------------------------------------------------------
(* C2 *)

\* The first group of the walk that holds data of h, 0 when none does.
startGroupOf(h, groups) ==
  IF \E i \in 1..Len(groups) : HasDv(h, groups[i].firstKey) \/ HasDv(h, groups[i].secondKey)
  THEN CHOOSE i \in 1..Len(groups) :
         /\ HasDv(h, groups[i].firstKey) \/ HasDv(h, groups[i].secondKey)
         /\ \A j \in 1..(i - 1) :
              ~(HasDv(h, groups[j].firstKey) \/ HasDv(h, groups[j].secondKey))
  ELSE 0

-----------------------------------------------------------------------------
(* C3 *)

\* C3: an identity with no snapshot whose base date lies in the range still
\* has exactly one summary row, and that row is all zero; the reconciler
\* produces one row per identity, in the order of the identities.
C3_ZeroRowNeverOmitted ==
  LET combined == combinedHoldings
      rows == rawSummaryRows
  IN /\ Len(rows) = Len(combined)
     /\ \A i \in 1..Len(combined) :
          /\ rows[i].id = combined[i].id
          /\ \A j \in 1..Len(rows) : rows[j].id = combined[i].id => j = i
          /\ keysInRangeOf(combined[i], summaryFromBase, summaryToBase) = {}
               => isZeroRow(rows[i])

\* An identity that has snapshots, none of them in the chosen range, shown
\* as a zero row next to an identity with data in the range.
C3_Witness ==
  /\ \E i \in 1..Len(combinedHoldings) :
       /\ DOMAIN combinedHoldings[i].dateValues # {}
       /\ keysInRangeOf(combinedHoldings[i], summaryFromBase, summaryToBase) = {}
       /\ i \in 1..Len(rawSummaryRows)
       /\ isZeroRow(rawSummaryRows[i])
  /\ \E i \in 1..Len(rawSummaryRows) : ~isZeroRow(rawSummaryRows[i])

-----------------------------------------------------------------------------
(* C4 *)

\* The to dates later than the to date of the range chosen.
laterTos ==
  {t \in Range(baseDatesSorted) : parseDate(t) > parseDate(normalizedRange.to)}

\* The groups of the range from..t that the range chosen does not cover.
newlyCoveredGroups(groupsNow, groupsWider) ==
  LET before == {g.fileIndex : g \in Range(groupsNow)}
  IN SelectSeq(groupsWider, LAMBDA g : g.fileIndex \notin before)

secondDeltaOf(h, g, field) ==
  IF HasDv(h, g.secondKey) THEN h.dateValues[g.secondKey][field] ELSE 0

\* The second-key bought or sold of h over the date keys in a set.
secondDeltasIn(h, keys, field) ==
  LET ks == SelectSeq(dates, LAMBDA dk : dk \in keys
                                          /\ getSnapshotPosFromDateKey(dk) = Some(2))
  IN SeqSum([k \in 1..Len(ks) |-> h.dateValues[ks[k]][field]])

rowIs(r, initial, b, s, net, still) ==
  /\ r.initialHolding = initial /\ r.bought = b /\ r.sold = s
  /\ r.net = net /\ r.stillHolding = still

-----------------------------------------------------------------------------
(* C7 *)

\* The earliest and the latest calendar date among the keys of a group.
earliestOf(g) ==
  CHOOSE t \in {keyTime(dk) : dk \in Range(g.dateKeys)} :
    \A dk \in Range(g.dateKeys) : t <= keyTime(dk)

latestOf(g) ==
  CHOOSE t \in {keyTime(dk) : dk \in Range(g.dateKeys)} :
    \A dk \in Range(g.dateKeys) : t >= keyTime(dk)

\* One group per distinct file index, each holding the keys of its index.
onePerFileIndex(groups, dateKeys) ==
  /\ {groups[i].fileIndex : i \in 1..Len(groups)} = {groupKeyOf(dk) : dk \in Range(dateKeys)}
  /\ \A i \in 1..Len(groups) : \A j \in 1..Len(groups) :
       groups[i].fileIndex = groups[j].fileIndex => i = j
  /\ \A i \in 1..Len(groups) :
       Range(groups[i].dateKeys) =
         {dk \in Range(dateKeys) : groupKeyOf(dk) = groups[i].fileIndex}

-----------------------------------------------------------------------------
(* C10 *)

\* The raw record of the identity of a row.
recordOfRow(row) == holdings[IndexOfId(holdings, rowKeyOf(row))]

\* C10: the columns of a batch have pairwise distinct keys, two per file,
\* also when two files carry the same calendar date; the record of an
\* identity holds, under the keys of each file it occurs in, the values of
\* its row in that file.
C10_DuplicateDatesDistinct ==
  LET sortedFiles == sortedFilesOf(parsedFiles)
  IN /\ Len(dates) = 2 * Len(parsedFiles)
     /\ \A i \in 1..Len(dates) : \A j \in 1..Len(dates) : dates[i] = dates[j] => i = j
     /\ \A k \in 1..Len(sortedFiles) : \A r \in 1..Len(sortedFiles[k].rows) :
          LET row == sortedFiles[k].rows[r]
              keys == fileKeys(sortedFiles[k], k - 1)
          IN /\ IndexOfId(holdings, rowKeyOf(row)) # 0
             /\ keys.firstKey \in DOMAIN recordOfRow(row).dateValues
             /\ keys.secondKey \in DOMAIN recordOfRow(row).dateValues
             /\ recordOfRow(row).dateValues[keys.firstKey] =
                  [value |-> row.firstValue, bought |-> 0, sold |-> 0]
             /\ recordOfRow(row).dateValues[keys.secondKey] =
                  [value |-> row.secondValue, bought |-> row.bought, sold |-> row.sold]

\* Two files with the same pair of dates and different values for one
\* identity: its record holds both first values under two keys of one date.
C10_Witness ==
  /\ Len(parsedFiles) = 2
  /\ parsedFiles[1].firstDate = parsedFiles[2].firstDate
  /\ parsedFiles[1].secondDate = parsedFiles[2].secondDate
  /\ \E i \in 1..Len(holdings) :
       \E k1 \in DOMAIN holdings[i].dateValues :
         \E k2 \in DOMAIN holdings[i].dateValues :
           /\ k1 # k2
           /\ getBaseDate(k1) = getBaseDate(k2)
           /\ getSnapshotPosFromDateKey(k1) = getSnapshotPosFromDateKey(k2)
           /\ holdings[i].dateValues[k1].value = 500
           /\ holdings[i].dateValues[k2].value = 600

-----------------------------------------------------------------------------
(* C5 *)

sameNumbers(browserRow, sheetRow) ==
  /\ sheetRow.initial = browserRow.initialHolding
  /\ sheetRow.bought = browserRow.bought
  /\ sheetRow.sold = browserRow.sold
  /\ sheetRow.net = browserRow.net
  /\ sheetRow.still = browserRow.stillHolding

\* C5: once the export has streamed the rows the browser holds, the Summary
\* sheet has, identity by identity, the row the browser's reconciler produces
\* for the full date span.
C5_ServerSummaryMatchesBrowser ==
  exportIsCurrent =>
    LET rows == rowsAt("", "")
    IN /\ Len(summarySheet) = Len(rows)
       /\ \A i \in 1..Len(rows) :
            \E j \in 1..Len(summarySheet) :
              /\ summarySheet[j].id = rows[i].id
              /\ sameNumbers(rows[i], summarySheet[j])

-----------------------------------------------------------------------------
(* C6 *)

\* The base date a label of the Lists sheet stands for.
baseOfLabel(label) ==
  CHOOSE d \in DateStrs : formatDropdownLabelFromBase(d) = label

\* C6: for every identity and every value of the control cells, the
\* SummaryDynamic formulas evaluate to the initialHolding, bought, sold, net
\* and stillHolding of the browser's reconciler for the same rows and range.
C6_FormulasMatchReconciler ==
  (exportIsCurrent /\ controlsFrom # "" /\ controlsTo # "") =>
    LET lists == listsOf(byDate)
        st == startCellOf(lists, controlsFrom, controlsTo)
        en == endCellOf(lists, controlsFrom, controlsTo)
        rows == rowsAt(baseOfLabel(controlsFrom), baseOfLabel(controlsTo))
    IN \A i \in 1..Len(rows) :
         sameNumbers(rows[i], summaryDynamicRow(byDate, rows[i].id, st, en))

-----------------------------------------------------------------------------
(* C8 *)

RECURSIVE Flatten(_)
Flatten(ss) == IF ss = <<>> THEN <<>> ELSE Head(ss) \o Flatten(Tail(ss))

identityOfRow(row) == combinedKeyOf(row.dpid, row.clientId, normalizeName(row.name))

sumOfField(rows, field) == SeqSum([r \in 1..Len(rows) |-> rows[r][field]])

\* C8: for every file and every identity with rows in it, the combined
\* record holds, under the keys of the file, the sums of the first values,
\* second values, bought and sold of all the rows of the identity in the
\* file.
C8_CollisionsAreSummed ==
  LET sortedFiles == sortedFilesOf(parsedFiles)
  IN \A k \in 1..Len(sortedFiles) : \A r \in 1..Len(sortedFiles[k].rows) :
       LET id == identityOfRow(sortedFiles[k].rows[r])
           rows == SelectSeq(sortedFiles[k].rows, LAMBDA row : identityOfRow(row) = id)
           keys == fileKeys(sortedFiles[k], k - 1)
           idx == IndexOfId(combinedHoldings, id)
       IN /\ idx # 0
          /\ keys.firstKey \in DOMAIN combinedHoldings[idx].dateValues
          /\ keys.secondKey \in DOMAIN combinedHoldings[idx].dateValues
          /\ combinedHoldings[idx].dateValues[keys.firstKey] =
               [value |-> sumOfField(rows, "firstValue"), bought |-> 0, sold |-> 0]
          /\ combinedHoldings[idx].dateValues[keys.secondKey] =
               [value |-> sumOfField(rows, "secondValue"),
                bought |-> sumOfField(rows, "bought"),
                sold |-> sumOfField(rows, "sold")]

-----------------------------------------------------------------------------
(* C9 *)

\* The first non-empty category of a sequence of rows or records, "" if all
\* are empty.
firstCategoryOf(items) ==
  LET set == SelectSeq(items, LAMBDA x : x.category # "")
  IN IF set = <<>> THEN "" ELSE set[1].category

\* C9: the category of a record of consolidateData is the first non-empty
\* category among the rows of its identity in processing order, and the
\* category of a combined record is the first non-empty category among the
\* records merged into it.
C9_FirstCategoryWins ==
  LET processed == Flatten([k \in 1..Len(parsedFiles) |-> sortedFilesOf(parsedFiles)[k].rows])
  IN /\ \A i \in 1..Len(holdings) :
          holdings[i].category =
            firstCategoryOf(SelectSeq(processed, LAMBDA row : rowKeyOf(row) = holdings[i].id))
     /\ \A i \in 1..Len(combinedHoldings) :
          combinedHoldings[i].category =
            firstCategoryOf(SelectSeq(holdings,
              LAMBDA h : combinedKeyOf(h.dpid, h.clientId, normalizeName(h.name))
                           = combinedHoldings[i].id))

-----------------------------------------------------------------------------
(* Key codec *)

\* The (base date, file index, position) triples consolidateData encodes.
CodecTriples == DateStrs \X (0..MaxFiles) \X {1, 2}

\* C11: decoding the key built from a base date, a file index and a position
\* 1 or 2 returns that base date, file index and position, and the keys of
\* different triples are different texts.
C11_CodecRoundTrip ==
  /\ \A t \in CodecTriples :
       arg = DateKey(t[1], t[2], t[3]) /\ returned # <<>> =>
         returned[1] = [baseDate |-> t[1], fileIndex |-> Some(t[2]),
                      pos |-> Some(t[3])]
  /\ \A t1, t2 \in CodecTriples :
       Join(DateKey(t1[1], t1[2], t1[3])) = Join(DateKey(t2[1], t2[2], t2[3]))
         => t1 = t2

C11_Witness ==
  /\ arg = DateKey(DateStr(2), 1, 2)
  /\ returned = <<[baseDate |-> DateStr(2), fileIndex |-> Some(1), pos |-> Some(2)]>>

\* A key without recoverable metadata: no "@@", or every part after it empty
\* or not a number.
noRecoverableMeta(key) ==
  \/ ~includesSep(key)
  \/ LET pieces == Split(Split(key, "@@")[2], "-")
     IN \A k \in 1..Len(pieces) :
          pieces[k] = <<>> \/ NumberOf(Join(pieces[k])) = None

\* C12: a key without recoverable file/position metadata decodes to
\* fileIndex = null and position = null.
C12_MalformedDecodesNull ==
  (returned # <<>> /\ noRecoverableMeta(arg)) =>
    (returned[1].fileIndex = None /\ returned[1].pos = None)

-----------------------------------------------------------------------------
(* Keys without a position *)

\* The first three numbers of a Summary row.
summaryNumbers(r) == <<r.initial, r.bought, r.sold>>

\* C13 (server half): a row whose key decodes to position = null contributes
\* nothing to the Summary: every Summary row has the initial holding, bought
\* and sold that the stream without those rows produces (zeros when no other
\* row of the identity remains).
C13_NullPositionIsUngrouped ==
  rnPc = "done" =>
    LET grouped == SelectSeq(rnRows,
                     LAMBDA r : getSnapshotPosFromDateKey(r.dateKey) # None)
        expected == aggregateFrom(<<>>, grouped)
    IN \A i \in 1..Len(summarySheet) :
         LET j == IndexOfId(expected, summarySheet[i].id)
         IN summaryNumbers(summarySheet[i]) =
              IF j = 0 THEN <<0, 0, 0>>
              ELSE summaryNumbers(summaryOfAgg(expected[j]))

-----------------------------------------------------------------------------
(* Names *)

\* C14: normalizeName applied to its own result returns that result, and the
\* result neither starts nor ends with a dot or a whitespace character.
C14_NormalizeIdempotent ==
  /\ Len(returned) = 2 => returned[2] = returned[1]
  /\ \A i \in 1..Len(returned) :
       returned[i] # <<>> =>
         /\ Head(returned[i]) \notin {".", " "}
         /\ returned[i][Len(returned[i])] \notin {".", " "}

C14_Witness ==
  /\ arg = <<" ", ".", "A", ".">>
  /\ returned = <<CharA, CharA>>

\* A name without its leading and trailing dots and blanks.
coreOf(name) == StripTrailing(StripLeading(name, {".", " "}), {".", " "})

\* Two rows of one holder whose names are written differently.
variantsOfOneHolder(row1, row2) ==
  /\ row1.dpid = row2.dpid
  /\ row1.clientId = row2.clientId
  /\ row1.name # row2.name
  /\ coreOf(row1.name) = coreOf(row2.name)

\* The records or aggregates of a list that belong to the holder of a row.
recordsOfHolder(list, row) ==
  {i \in 1..Len(list) : /\ list[i].dpid = row.dpid
                        /\ list[i].clientId = row.clientId
                        /\ coreOf(list[i].name) = coreOf(row.name)}

\* C15: two rows with the same depository id and client id whose names differ
\* only by leading/trailing dots and whitespace are held by a single combined
\* record (and a single aggregate of the server's stream); for the file of
\* each row the record has both keys of the file, with the sums of what the
\* consolidated records of that holder hold under them.
C15_VariantNamesShareOneRecord ==
  LET sortedFiles == sortedFilesOf(parsedFiles)
      combined == combineHoldings(holdings)
      aggs == aggregateFrom(<<>>, orderedRowsOf(dbRows))
  IN \A k1, k2 \in 1..Len(sortedFiles) :
       \A r1 \in 1..Len(sortedFiles[k1].rows), r2 \in 1..Len(sortedFiles[k2].rows) :
         LET row1 == sortedFiles[k1].rows[r1]
             row2 == sortedFiles[k2].rows[r2]
             recs == recordsOfHolder(combined, row1)
             raw == SelectSeq(holdings, LAMBDA h : coreOf(h.name) = coreOf(row1.name)
                                                    /\ h.dpid = row1.dpid
                                                    /\ h.clientId = row1.clientId)
             sumAt(dk, field) ==
               SeqSum([n \in 1..Len(raw) |->
                         IF dk \in DOMAIN raw[n].dateValues
                         THEN raw[n].dateValues[dk][field] ELSE 0])
         IN variantsOfOneHolder(row1, row2) =>
              /\ Cardinality(recs) = 1
              /\ Cardinality(recordsOfHolder(aggs, row1)) = 1
              /\ \A i \in recs : \A k \in {k1, k2} :
                   LET keys == fileKeys(sortedFiles[k], k - 1)
                   IN \A dk \in {keys.firstKey, keys.secondKey} :
                        /\ dk \in DOMAIN combined[i].dateValues
                        /\ combined[i].dateValues[dk] =
                             [value |-> sumAt(dk, "value"),
                              bought |-> sumAt(dk, "bought"),
                              sold |-> sumAt(dk, "sold")]

\* "A" in the first file, ".A" in the second: one record with the four keys.
C15_Witness ==
  /\ Len(parsedFiles) = 2
  /\ parsedFiles[1].rows[1].name = CharA
  /\ parsedFiles[2].rows[1].name = CharDotA
  /\ Len(holdings) = 2
  /\ Len(combinedHoldings) = 1
  /\ Cardinality(DOMAIN combinedHoldings[1].dateValues) = 4

\* The (depository id, client id, normalized name) of a row.
tripleOf(row) == <<row.dpid, row.clientId, normalizeName(row.name)>>

\* C16: two rows whose (depository id, client id, normalized name) triples
\* differ get different row keys and different identity keys, and there are
\* as many combined records as there are triples.
C16_IdentityKeysInjective ==
  LET rows == Flatten([k \in 1..Len(parsedFiles) |-> parsedFiles[k].rows])
  IN /\ \A i, j \in 1..Len(rows) :
          tripleOf(rows[i]) # tripleOf(rows[j]) =>
            /\ rowKeyOf(rows[i]) # rowKeyOf(rows[j])
            /\ identityOfRow(rows[i]) # identityOfRow(rows[j])
     /\ Len(combineHoldings(holdings)) =
          Cardinality({tripleOf(rows[i]) : i \in 1..Len(rows)})

-----------------------------------------------------------------------------
(* Order of the files *)

\* The batch handed over in another order.
reordered(files, q) == [i \in 1..Len(files) |-> files[q[i]]]

\* The file index consolidateData gives to each file of a batch: the index
\* of the file in the sorted batch.
fileIndexIn(files, f) ==
  LET sortedFiles == sortedFilesOf(files)
  IN {k - 1 : k \in {n \in 1..Len(sortedFiles) : sortedFiles[n] = f}}

\* C17: the files are numbered in ascending order of their second date, and
\* every order of handing over the same files gives each file the same index
\* and the batch the same keys and the same records.
C17_FileIndexIgnoresUploadOrder ==
  LET sortedFiles == sortedFilesOf(parsedFiles)
      here == consolidateData(parsedFiles)
  IN /\ \A i, j \in 1..Len(sortedFiles) :
          i < j => parseDate(sortedFiles[i].secondDate)
                     <= parseDate(sortedFiles[j].secondDate)
     /\ \A q \in Permutations(1..Len(parsedFiles)) :
          LET there == consolidateData(reordered(parsedFiles, q))
          IN /\ \A k \in 1..Len(parsedFiles) :
                  fileIndexIn(reordered(parsedFiles, q), parsedFiles[k])
                    = fileIndexIn(parsedFiles, parsedFiles[k])
             /\ there.dates = here.dates
             /\ Range(there.holdings) = Range(here.holdings)

-----------------------------------------------------------------------------
(* Uploads in several rounds *)

\* C18: after files have been consolidated and a later upload has brought
\* more files, the records, keys and values are those of consolidating all
\* the files in a single pass.
C18_LaterUploadMergesIntoRecords ==
  (earlierFiles # <<>> /\ hasData) =>
    LET onePass == consolidateData(earlierFiles \o parsedFiles)
    IN /\ Range(holdings) = Range(onePass.holdings)
       /\ dates = onePass.dates

-----------------------------------------------------------------------------
(* The same file twice *)

-----------------------------------------------------------------------------
(* Arrival order of the stream *)

\* What the done handler reads of an aggregate.
finalisedOf(map) ==
  {[id |-> map[i].id, minPos |-> map[i].minPos, minValue |-> map[i].minValue,
    minBought |-> map[i].minBought, minSold |-> map[i].minSold,
    boughtSum |-> map[i].boughtSum, soldSum |-> map[i].soldSum] :
     i \in 1..Len(map)}

-----------------------------------------------------------------------------
(* Sheets without two dated columns *)

\* Number of columns of a sheet that start with AS ON and carry a date.
datedAsOnCount(file) ==
  Cardinality({i \in 1..Len(file.headers) :
                 /\ isAsOnHeader(file.headers[i])
                 /\ extractDateFromHeader(file.headers[i]) # None})

\* The numbers in the cells of a sheet's columns.
cellNumbersOf(file) ==
  {file.rows[r].cells[h].num : r \in 1..Len(file.rows), h \in Range(file.headers)}

\* The values the holding records carry.
valuesHeld == UNION {{holdings[i].dateValues[dk].value : dk \in DOMAIN holdings[i].dateValues} :
                       i \in 1..Len(holdings)}

\* C21: of an uploaded batch, no cell of a file with fewer than two dated AS
\* ON columns reaches a holding record, and the records and keys are those of
\* consolidating the other files of the batch.
C21_RejectedFileLeavesOthers ==
  hasData =>
    LET good == SelectSeq(arg, LAMBDA f : datedAsOnCount(f) >= 2)
        bad == SelectSeq(arg, LAMBDA f : datedAsOnCount(f) < 2)
        rest == consolidateData(parsedFilesOf(good))
    IN /\ \A i \in 1..Len(bad) : cellNumbersOf(bad[i]) \cap valuesHeld = {}
       /\ Len(parsedFiles) = Len(good)
       /\ holdings = rest.holdings
       /\ dates = rest.dates
       /\ \A i \in 1..Len(good) :
            \A r \in 1..Len(good[i].rows) :
              \E v \in valuesHeld : v \in cellNumbersOf(good[i]) /\ v > 10000

\* The first sheet has one dated column and an undated one, the second has
\* both dated columns: only the holder of the second sheet has a record.
C21_Witness ==
  /\ Len(arg) = 2
  /\ arg[1].headers = <<SheetColumns(1)[1], SheetColumns(1)[3]>>
  /\ datedAsOnCount(arg[2]) = 2
  /\ Len(parsedFiles) = 1
  /\ Len(holdings) = 1
  /\ valuesHeld = {20600, 20700}

-----------------------------------------------------------------------------
(* Cells that do not spell a number *)

\* A text spells a number when, trimmed and taken out of one pair of
\* parentheses, it is digits with commas and blanks among them, after an
\* optional plus and an optional sign; the empty text counts as 0.
spellsNumber(t) ==
  LET s0 == Trim(t)
      inner == IF Len(s0) >= 2 /\ Head(s0) = "(" /\ s0[Len(s0)] = ")"
               THEN SubSeq(s0, 2, Len(s0) - 1) ELSE s0
      s == SelectSeq(inner, LAMBDA c : c \notin {",", " "})
      unplussed == IF s # <<>> /\ Head(s) = "+" THEN Tail(s) ELSE s
      unsigned == IF unplussed # <<>> /\ Head(unplussed) \in {"+", "-"}
                  THEN Tail(unplussed) ELSE unplussed
  IN unplussed = <<>> \/ (unsigned # <<>> /\ \A i \in 1..Len(unsigned) : unsigned[i] = "1")

\* The sheets with 0 in place of every text that spells no number.
zeroedCell(cell) ==
  IF cell.kind = "text" /\ ~spellsNumber(cell.text) THEN NumCell(0) ELSE cell

zeroedSheet(file) ==
  [file EXCEPT !.rows =
     [r \in 1..Len(file.rows) |->
        [file.rows[r] EXCEPT !.BOUGHT = zeroedCell(@), !.SOLD = zeroedCell(@),
                             !.cells = [h \in DOMAIN @ |-> zeroedCell(@[h])]]]]

\* C22: a text that spells no number in a value, bought or sold cell counts
\* as 0: the sheets are ingested, and the records are those of the same
\* sheets with 0 in that cell.
C22_UnparsableCellIsZero ==
  hasData =>
    LET zeroed == consolidateData(parsedFilesOf([k \in 1..Len(arg) |-> zeroedSheet(arg[k])]))
    IN /\ Len(parsedFiles) = Len(arg)
       /\ \A k \in 1..Len(arg) : Len(parsedFiles[k].rows) = Len(arg[k].rows)
       /\ holdings = zeroed.holdings
       /\ dates = zeroed.dates

\* The bought cell of the first row reads "1x": the row is ingested with
\* its two values and bought 0.
C22_Witness ==
  /\ hasData
  /\ arg[1].rows[1].BOUGHT = TextCell(<<"1", "x">>)
  /\ parsedFiles[1].rows[1].bought = 0
  /\ parsedFiles[1].rows[1].secondValue = 10600
  /\ \E i \in 1..Len(holdings) : \E dk \in DOMAIN holdings[i].dateValues :
       holdings[i].dateValues[dk].value = 10600 /\ holdings[i].dateValues[dk].bought = 0

-----------------------------------------------------------------------------
(* Reverse Dates *)

\* C23: whenever the range is the one that was selected when Reverse Dates
\* was last pressed, the period groups the reconciler walks and the summary
\* rows are the ones shown before the press.
C23_ReverseDatesKeepsSummary ==
  (/\ beforeToggle # <<>>
   /\ beforeToggle[1].fromBase = summaryFromBase
   /\ beforeToggle[1].toBase = summaryToBase) =>
    /\ summaryPeriodGroups = beforeToggle[1].groups
    /\ summaryRowsShown = beforeToggle[1].rows

\* Two files on screen newest first, a range chosen.
C23_Witness ==
  /\ dateOrder = "desc"
  /\ beforeToggle # <<>>
  /\ beforeToggle[1].fromBase = summaryFromBase
  /\ beforeToggle[1].toBase = summaryToBase
  /\ Len(fileGroupsAsc) >= 2
  /\ fileGroups # fileGroupsAsc
  /\ summaryFromBase # ""
  /\ Len(summaryPeriodGroups) >= 2
  /\ \E i \in 1..Len(summaryRowsShown) : summaryRowsShown[i].bought > 0

-----------------------------------------------------------------------------
(* Range endpoints *)

\* The keys of the ByDate sheet.
keysOfByDate == {byDate[i].key : i \in 1..Len(byDate)}

\* C24: in the browser, the summary rows for (from = a, to = b) are those
\* for (from = b, to = a), for all dates a, b the selectors offer; in the
\* workbook, the Start and End cells and every SummaryDynamic row are the
\* same with Controls!B2 and B3 exchanged, and Start <= End.
C24_RangeEndpointsCommute ==
  /\ (rnPc = "idle" /\ hasData) =>
       LET options == Range(baseDatesSorted)
           combined == combinedHoldings
           groupsAsc == fileGroupsAsc
       IN \A a \in options : \A b \in options :
            parseDate(a) < parseDate(b) =>
              summaryRowsOver(combined, groupsAsc, dates, a, b)
                = summaryRowsOver(combined, groupsAsc, dates, b, a)
  /\ (rnPc = "done" /\ controlsFrom # "" /\ controlsTo # "") =>
       LET lists == listsOf(byDate)
           st == startCellOf(lists, controlsFrom, controlsTo)
           en == endCellOf(lists, controlsFrom, controlsTo)
           stSwapped == startCellOf(lists, controlsTo, controlsFrom)
           enSwapped == endCellOf(lists, controlsTo, controlsFrom)
       IN /\ st = stSwapped /\ en = enSwapped /\ st <= en
          /\ \A k \in keysOfByDate :
               summaryDynamicRow(byDate, k, st, en)
                 = summaryDynamicRow(byDate, k, stSwapped, enSwapped)

\* The workbook with From later than To, rows with purchases in the range;
\* the browser rows of a two-date range show purchases too.
C24_Witness ==
  /\ exportIsCurrent
  /\ controlsFrom # "" /\ controlsTo # ""
  /\ LET lists == listsOf(byDate)
     IN /\ lookupSerial(lists, controlsFrom)[1] > lookupSerial(lists, controlsTo)[1]
        /\ \E k \in keysOfByDate :
             summaryDynamicRow(byDate, k, startCellOf(lists, controlsFrom, controlsTo),
                               endCellOf(lists, controlsFrom, controlsTo)).bought > 0
  /\ \E a \in Range(baseDatesSorted) : \E b \in Range(baseDatesSorted) :
       /\ parseDate(a) > parseDate(b)
       /\ \E i \in 1..Len(rowsAt(a, b)) : rowsAt(a, b)[i].bought > 0

-----------------------------------------------------------------------------
(* First snapshots carry no deltas *)

\* The snapshots of position pos of a list of records.
snapshotsAt(list, pos) ==
  UNION {{list[i].dateValues[dk] :
            dk \in {k \in DOMAIN list[i].dateValues :
                      getSnapshotPosFromDateKey(k) = Some(pos)}} :
           i \in 1..Len(list)}

\* C25: in the records consolidateData produced and in the records
\* combineHoldings makes of them, every snapshot of position 1 has bought = 0
\* and sold = 0; every key has position 1 or 2, so the bought and sold of
\* the rows are on the snapshots of position 2.
C25_FirstSnapshotsCarryNoDeltas ==
  LET combined == combinedHoldings
  IN /\ \A dv \in snapshotsAt(holdings, 1) \cup snapshotsAt(combined, 1) :
          dv.bought = 0 /\ dv.sold = 0
     /\ \A i \in 1..Len(holdings) : \A dk \in DOMAIN holdings[i].dateValues :
          getSnapshotPosFromDateKey(dk) \in {Some(1), Some(2)}

\* Two records merged into one whose second snapshot carries purchases and
\* whose first snapshot has a value.
C25_Witness ==
  /\ Len(combinedHoldings) < Len(holdings)
  /\ \E dv \in snapshotsAt(combinedHoldings, 1) : dv.value > 0
  /\ \E dv \in snapshotsAt(combinedHoldings, 2) : dv.bought > 0

-----------------------------------------------------------------------------
(* Delta accumulation *)

\* Sum of a field over a set of date keys of holding h.
RECURSIVE sumOverKeys(_, _, _)
sumOverKeys(h, keys, field) ==
  IF keys = {} THEN 0
  ELSE LET dk == CHOOSE k \in keys : TRUE
       IN h.dateValues[dk][field] + sumOverKeys(h, keys \ {dk}, field)

\* The groups in which holding h has a snapshot.
groupsWithData(h, groups) ==
  {i \in 1..Len(groups) : HasDv(h, groups[i].firstKey) \/ HasDv(h, groups[i].secondKey)}

\* C26: for the range selected and every combined record with a snapshot in
\* it, the end group is the last in-range group with data and its mode is
\* pos2 exactly when the record has the group's second key; bought and sold
\* are the sums of the second-key bought and sold of the groups from the
\* start group through the end group, the end group's left out when its
\* mode is pos1, which are the sums over the record's in-range keys of
\* position 2.
C26_DeltasAreSecondKeySums ==
  LET combined == combinedHoldings
      groups == summaryPeriodGroups
      rows == summaryRowsShown
  IN \A i \in 1..Len(combined) :
       LET h == combined[i]
           with == groupsWithData(h, groups)
           scan == scanGroups(h, groups, 1,
                     [startIdx |-> 0, endIdx |-> 0, endMode |-> "pos1",
                      initialHolding |-> 0, endSnapshotValue |-> 0])
           counted == {groups[g].secondKey :
                         g \in {x \in with : /\ x >= scan.startIdx
                                              /\ x <= scan.endIdx
                                              /\ HasDv(h, groups[x].secondKey)
                                              /\ (x = scan.endIdx => scan.endMode = "pos2")}}
           secondInRange == {dk \in keysInRangeOf(h, summaryFromBase, summaryToBase) :
                               getSnapshotPosFromDateKey(dk) = Some(2)}
       IN with # {} =>
            /\ \A g \in with : scan.startIdx <= g /\ g <= scan.endIdx
            /\ scan.endIdx \in with
            /\ (scan.endMode = "pos2") <=> HasDv(h, groups[scan.endIdx].secondKey)
            /\ rows[i].bought = sumOverKeys(h, counted, "bought")
            /\ rows[i].sold = sumOverKeys(h, counted, "sold")
            /\ counted = secondInRange

\* A range that ends on the first key of its last group: the record has
\* that group's second key, outside the range, and purchases counted from
\* an earlier group.
C26_Witness ==
  /\ summaryToBase # ""
  /\ \E i \in 1..Len(combinedHoldings) :
       LET h == combinedHoldings[i]
           groups == summaryPeriodGroups
       IN /\ Len(groups) >= 2
          /\ groups[Len(groups)].secondKey = None
          /\ HasDv(h, groups[Len(groups)].firstKey)
          /\ HasDv(h, groups[1].secondKey)
          /\ summaryRowsShown[i].bought > 0

-----------------------------------------------------------------------------
(* Snapshots outside the range *)

\* The snapshots of a list of records: the identity, the date key, the day
\* of its base date and the snapshot.
snapshotsOf(records) ==
  UNION {{[id |-> records[i].id, key |-> dk, day |-> keyTime(dk),
           dv |-> records[i].dateValues[dk]] : dk \in DOMAIN records[i].dateValues} :
           i \in 1..Len(records)}

\* The snapshots whose base date lies between two days.
snapshotsBetween(snapshots, lo, hi) == {s \in snapshots : s.day >= lo /\ s.day <= hi}

\* The ranges of days.
DayWindows == {w \in (1..MaxDate) \X (1..MaxDate) : w[1] <= w[2]}

\* The data sets the page can hold: the combined records and the date keys
\* of every batch, with their snapshots in every range of days and before it.
DataSets ==
  {LET data == consolidateData(files)
       records == combineHoldings(data.holdings)
       snapshots == snapshotsOf(records)
   IN [records |-> records, dates |-> data.dates,
       inside |-> [w \in DayWindows |-> snapshotsBetween(snapshots, w[1], w[2])],
       before |-> [w \in DayWindows |-> snapshotsBetween(snapshots, 0, w[1] - 1)]] :
     files \in Batches \cup SoloBatches}

\* The numbers of the summary row of identity id, None when the data set
\* has no record of it.
numbersOfIdentity(rows, id) ==
  IF \E i \in 1..Len(rows) : rows[i].id = id
  THEN LET r == rows[CHOOSE i \in 1..Len(rows) : rows[i].id = id]
       IN Some(<<r.initialHolding, r.bought, r.sold, r.net, r.stillHolding>>)
  ELSE None

\* The days of the range selected, in order.
selectedDays ==
  LET a == parseDate(summaryFromBase)
      b == parseDate(summaryToBase)
  IN IF a <= b THEN <<a, b>> ELSE <<b, a>>

\* C27 as stated: a data set that has the snapshots of the uploaded one
\* inside the selected range (from <= to), and differs from it outside only,
\* has the same summary rows for the range.
C27_AsStated ==
  (/\ hasData /\ summaryFromBase # "" /\ summaryToBase # ""
   /\ parseDate(summaryFromBase) <= parseDate(summaryToBase)) =>
    LET combined == combinedHoldings
        mine == snapshotsBetween(snapshotsOf(combined), selectedDays[1], selectedDays[2])
        rows == summaryRowsOver(combined, fileGroupsAsc, dates,
                                summaryFromBase, summaryToBase)
    IN \A other \in DataSets :
         other.inside[selectedDays] = mine =>
           summaryRowsOver(other.records, fileGroupsAscOf(other.dates), other.dates,
                           summaryFromBase, summaryToBase) = rows

\* C27: a data set that has the snapshots of the uploaded one inside the
\* selected range (from <= to), and differs from it outside only, has the same
\* initialHolding, bought, sold, net and stillHolding for every identity with
\* a snapshot in the range; an identity without one has the zero row where
\* it has a record.
C27_OutsideSnapshotsAreIgnored ==
  (/\ hasData /\ summaryFromBase # "" /\ summaryToBase # ""
   /\ parseDate(summaryFromBase) <= parseDate(summaryToBase)) =>
    LET combined == combinedHoldings
        mine == snapshotsBetween(snapshotsOf(combined), selectedDays[1], selectedDays[2])
        rows == summaryRowsOver(combined, fileGroupsAsc, dates,
                                summaryFromBase, summaryToBase)
    IN /\ \A i \in 1..Len(rows) :
            (\A s \in mine : s.id # rows[i].id) => isZeroRow(rows[i])
       /\ \A other \in DataSets :
            other.inside[selectedDays] = mine =>
              LET theirs == summaryRowsOver(other.records, fileGroupsAscOf(other.dates),
                                            other.dates, summaryFromBase, summaryToBase)
              IN \A s \in mine :
                   /\ numbersOfIdentity(rows, s.id) # None
                   /\ numbersOfIdentity(theirs, s.id) = numbersOfIdentity(rows, s.id)

\* A range that starts after the first file: the uploaded data has a
\* snapshot before the range, another data set has the same snapshots in the
\* range and none before it, and the identity's initial holding is not 0.
C27_Witness ==
  /\ hasData /\ summaryFromBase # "" /\ summaryToBase # ""
  /\ LET combined == combinedHoldings
         mine == snapshotsBetween(snapshotsOf(combined), selectedDays[1], selectedDays[2])
     IN /\ mine # {}
        /\ snapshotsBetween(snapshotsOf(combined), 0, selectedDays[1] - 1) # {}
        /\ \E other \in DataSets :
             /\ other.inside[selectedDays] = mine
             /\ other.before[selectedDays] = {}
        /\ \E i \in 1..Len(rawSummaryRows) : rawSummaryRows[i].initialHolding > 0

-----------------------------------------------------------------------------
(* Concurrent imports *)

\* Request q had finished when request r arrived.
finishedBefore(q, r) ==
  \E n \in 1..Len(importLog) : importLog[n] = q /\ n <= imports[r].arrived

\* C28: when no import is in flight and all that ran answered ok, the
\* table holds exactly the rows of the request that finished last; and
\* when the request that finished last failed at its bulk insert, having
\* run after the others had finished, the table holds the rows it held when
\* that request arrived.
C28_ImportIsReplaceAll ==
  importLog # <<>> =>
    LET last == importLog[Len(importLog)]
    IN /\ (\A r \in ImportRequests : imports[r].pc \in {"idle", "ok"}) =>
            dbRows = imports[last].rows
       /\ (/\ imports[last].pc = "failed"
           /\ \A q \in ImportRequests \ {last} :
                imports[q].pc = "idle" \/ finishedBefore(q, last)) =>
            dbRows = imports[last].before

-----------------------------------------------------------------------------
(* Login codes *)

\* The number of times a code was mailed to an email.
timesMailed(email, otp) ==
  Cardinality({n \in 1..Len(mailed) : mailed[n] = [email |-> email, otp |-> otp]})

\* The verify requests with that email and code that were given a cookie.
cookiesFor(email, otp) ==
  {r \in VerifyRequests : /\ verifies[r].pc = "issued"
                           /\ verifies[r].email = email
                           /\ verifies[r].otp = otp}

\* C29: no more verify requests are given a session cookie for a code than
\* send-otp requests mailed it; and a verify request that arrives after
\* another was given a cookie for the same email and code, with no code
\* mailed in between, is answered "Invalid OTP".
C29_OtpIsSingleUse ==
  /\ \A email \in Emails : \A otp \in OtpCodes :
       Cardinality(cookiesFor(email, otp)) <= timesMailed(email, otp)
  /\ \A r \in VerifyRequests : \A q \in verifies[r].issuedBefore :
       (/\ verifies[r].pc # "idle"
        /\ verifies[q].pc = "issued"
        /\ verifies[r].email = verifies[q].email
        /\ verifies[r].otp = verifies[q].otp
        /\ verifies[r].sends = verifies[q].sends
        /\ isAllowed(verifies[r].email)) =>
         verifies[r].pc = "invalid"

-----------------------------------------------------------------------------
(* The session gate *)

\* The handlers of the paths under /api/ that the gate does not exempt.
GatedHandlers == {"import", "clear", "export", "rn"}

\* The request carries a valid session token of an email of the allow-list.
hasAllowedSession(cookie) ==
  LET session == readSession(cookie)
  IN session # None /\ isAllowed(session[1].email)

\* C30: for a request without a valid session token of an allow-listed
\* email, no handler of a gated /api/ path runs; a request that one of those
\* routes matches is answered 401 or 403 and leaves the rows of the table
\* as they were.
C30_GateKeepsHandlersFromStrangers ==
  \A i \in 1..Len(served) :
    LET s == served[i]
    IN ~hasAllowedSession(s.cookie) =>
         /\ s.handler \notin GatedHandlers
         /\ routeOf(s.method, s.path) \in GatedHandlers =>
              s.status \in {"401", "403"} /\ s.after = s.before

====
